---------------------------- MODULE Spec2Model ----------------------------
(***************************************************************************)
(* A model of pyMINFLUX: the MinFluxProcessor filter state machine         *)
(* (processor/_processor.py), the MinFluxReader decoder                    *)
(* (reader/_reader.py) and the histogram functions                         *)
(* (analysis/_analysis.py).                                                *)
(*                                                                         *)
(* A pandas table is modelled by the sequence of its rows; a table that    *)
(* was derived from it by row selection is the set of the row labels       *)
(* (the pandas index) that it kept.  An Optional value is a sequence of    *)
(* length at most one: <<>> is None, <<v>> is the value v.                 *)
(***************************************************************************)
EXTENDS Integers, Sequences, FiniteSets, TLC

\* ------------------------------------------------------------------ bounds
\* Largest number of rows of the reader's processed table.
MaxRows == 3

\* ------------------------------------------------------------ Optional[T]
None == <<>>
Some(v) == <<v>>
IsNone(o) == o = <<>>
Get(o) == o[1]

VARIABLES
    \* --- MinFluxReader / State, as seen by the processor
    processed_dataframe,      \* reader.processed_dataframe: Seq of rows
    min_num_loc_per_trace,    \* State().min_num_loc_per_trace
    \* --- MinFluxProcessor
    constructed,              \* whether MinFluxProcessor.__init__ has run
    filtered_dataframe,       \* Optional set of row labels
    filtered_stats_dataframe, \* Optional set of [tid, n] records
    stats_to_be_recomputed,   \* the statistics-stale flag
    last_call,                \* the last call made on the processor, with its arguments
    range_dropped,            \* history: a range filter has removed a row since __init__
    \* --- MinFluxReader
    reader_status,            \* "none", "ok" (constructed) or "raised" (__init__ raised)
    reader_args,              \* the constructor's arguments and the file they name
    data_array,               \* _data_array: Optional raw array
    is_3d,                    \* _is_3d
    is_aggregated,            \* _is_aggregated
    reps,                     \* _reps
    last_valid,               \* _efo_index, _cfr_index, _dcr_index, _eco_index, _loc_index
    data_df,                  \* _data_df: Optional processed table
    df_returned,              \* Optional: what the last processed_dataframe read returned
    process_raised,           \* whether the last processed_dataframe read raised
    searched,                 \* history: find_last_valid_iteration has been called
    \* --- analysis: the histogram functions
    hist_args,                \* the arguments of the call
    hist_result,              \* Optional: what the call returned or raised
    \* --- analysis and fourier: the other functions
    call_args,                \* the function called (fn) and its arguments
    call_result,              \* Optional: what the call returned or raised
    \* --- base and state: the State singleton
    instances,                \* Singleton._instances[State]: Optional object
    objects,                  \* the State objects constructed so far, in order
    holders,                  \* self.state of each holder: Optional object
    state_call,               \* the last call made on State or on a State object
    \* --- ui: the Analyzer dialog
    analyzer_columns,         \* the efo and cfr columns of processor.filtered_dataframe
    analyzer_thresholds,      \* state.efo_thresholds and state.cfr_thresholds
    buttons_enabled,          \* isEnabled() of the five push buttons
    analyzer_call             \* the last handler run, the signals it emitted, its error

procVars == <<processed_dataframe, min_num_loc_per_trace, constructed,
              filtered_dataframe, filtered_stats_dataframe,
              stats_to_be_recomputed, last_call, range_dropped>>

readerVars == <<reader_status, reader_args, data_array, is_3d, is_aggregated,
                reps, last_valid, data_df, df_returned, process_raised, searched>>

histVars == <<hist_args, hist_result>>

callVars == <<call_args, call_result>>

stateVars == <<instances, objects, holders, state_call>>

analyzerVars == <<analyzer_columns, analyzer_thresholds, buttons_enabled, analyzer_call>>

vars == <<procVars, readerVars, histVars, callVars, stateVars, analyzerVars>>

\* What an operation of one component leaves alone: the other components.
notProcVars == <<readerVars, histVars, callVars, stateVars, analyzerVars>>
notReaderVars == <<procVars, histVars, callVars, stateVars, analyzerVars>>
notHistVars == <<procVars, readerVars, callVars, stateVars, analyzerVars>>
notCallVars == <<procVars, readerVars, histVars, stateVars, analyzerVars>>
notStateVars == <<procVars, readerVars, histVars, callVars, analyzerVars>>
notAnalyzerVars == <<procVars, readerVars, histVars, callVars, stateVars>>

\* ------------------------------------------------------------ input sets
TidValues == 1..2
EfoValues == 1..2
\* Thresholds reach one below and one above the stored values.
ThresholdValues == 0..3
\* The columns of the modelled table, and the names passed as `prop`.
Columns == {"tid", "efo"}
PropInputs == {"tid", "efo", "snr"}
\* Values typed into the Options dialog (QIntValidator(bottom=0)).
MinInputs == 0..MaxRows

Row == [tid : TidValues, efo : EfoValues]
\* No operation depends on the order of the rows, so one table stands for
\* all its row permutations: the one ordered by (tid, efo).
RowLeq(a, b) == a.tid < b.tid \/ (a.tid = b.tid /\ a.efo <= b.efo)
Tables ==
    UNION {{t \in [1..n -> Row] : \A i \in 1..(n - 1) : RowLeq(t[i], t[i + 1])} :
             n \in 0..MaxRows}
\* The threshold pairs passed to apply_range_filter: a threshold may be None.
OptThresholds == {None} \cup {Some(t) : t \in ThresholdValues}
ThresholdPairs ==
    {p \in OptThresholds \X OptThresholds :
        IsNone(p[1]) \/ IsNone(p[2]) \/ Get(p[1]) < Get(p[2])}

Call(op, prop, lo, hi) == [op |-> op, prop |-> prop, lo |-> lo, hi |-> hi]
NoArgs(op) == Call(op, "", None, None)

\* ------------------------------------------------------- MinFluxProcessor
AllRows == DOMAIN processed_dataframe

\* df["tid"].value_counts(): the number of rows of `rows` with trace id t
value_counts(rows, t) ==
    Cardinality({q \in rows : processed_dataframe[q].tid = t})

\* counts >= min_num_loc_per_trace, mutated: a strict comparison
TraceLongEnoughStrict(rows, t) ==
    value_counts(rows, t) > min_num_loc_per_trace

\* counts[counts >= self.state.min_num_loc_per_trace]
TraceLongEnough(rows, t) ==
    value_counts(rows, t) >= min_num_loc_per_trace

\* _apply_global_filters: the table it starts from
StartTable(fd) == IF IsNone(fd) THEN AllRows ELSE Get(fd)

\* _apply_global_filters: the rows it keeps
GlobalFilterRows(fd) ==
    LET df == StartTable(fd)
    IN  {r \in df : TraceLongEnough(df, processed_dataframe[r].tid)}

\* apply_range_filter: (df[prop] > min_threshold) & (df[prop] < max_threshold)
InRange(r, prop, lo, hi) ==
    /\ processed_dataframe[r][prop] > lo
    /\ processed_dataframe[r][prop] < hi

\* MinFluxProcessor.__init__
Construct ==
    /\ UNCHANGED notProcVars
    /\ ~constructed
    /\ constructed' = TRUE
    /\ filtered_dataframe' = Some(GlobalFilterRows(None))
    /\ filtered_stats_dataframe' = None
    /\ stats_to_be_recomputed' = TRUE
    /\ last_call' = NoArgs("init")
    /\ range_dropped' = FALSE
    /\ UNCHANGED <<processed_dataframe, min_num_loc_per_trace>>

\* MinFluxProcessor._apply_global_filters, called on its own
ApplyGlobalFilters ==
    /\ UNCHANGED notProcVars
    /\ constructed
    /\ filtered_dataframe' = Some(GlobalFilterRows(filtered_dataframe))
    /\ stats_to_be_recomputed' = TRUE
    /\ last_call' = NoArgs("global")
    /\ UNCHANGED <<processed_dataframe, min_num_loc_per_trace, constructed,
                   filtered_stats_dataframe, range_dropped>>

\* MinFluxProcessor.reset, mutated: the filtered table is not dropped first
ResetKeepsFiltered ==
    /\ UNCHANGED notProcVars
    /\ constructed
    /\ filtered_dataframe' = Some(GlobalFilterRows(filtered_dataframe))
    /\ stats_to_be_recomputed' = TRUE
    /\ last_call' = NoArgs("reset")
    /\ UNCHANGED <<processed_dataframe, min_num_loc_per_trace, constructed,
                   filtered_stats_dataframe, range_dropped>>

\* MinFluxProcessor.reset
Reset ==
    /\ UNCHANGED notProcVars
    /\ constructed
    /\ filtered_dataframe' = Some(GlobalFilterRows(None))
    /\ stats_to_be_recomputed' = TRUE
    /\ last_call' = NoArgs("reset")
    /\ UNCHANGED <<processed_dataframe, min_num_loc_per_trace, constructed,
                   filtered_stats_dataframe, range_dropped>>

\* MinFluxProcessor.apply_range_filter(prop, min_threshold, max_threshold)
\*   "skipped": a threshold is None, the call returns at once
\*   "raised":  df[prop] raises KeyError after _apply_global_filters has run
\*   "range":   the call completes
apply_range_filter(prop, lo, hi) ==
    /\ UNCHANGED notProcVars
    /\ constructed
    /\ IF IsNone(lo) \/ IsNone(hi)
       THEN /\ last_call' = NoArgs("skipped")
            /\ UNCHANGED <<filtered_dataframe, stats_to_be_recomputed,
                           range_dropped>>
       ELSE LET df == GlobalFilterRows(filtered_dataframe)
            IN  IF prop \notin Columns
                THEN /\ filtered_dataframe' = Some(df)
                     /\ stats_to_be_recomputed' = TRUE
                     /\ last_call' = NoArgs("raised")
                     /\ UNCHANGED range_dropped
                ELSE /\ filtered_dataframe' =
                            Some({r \in df : InRange(r, prop, Get(lo), Get(hi))})
                     /\ stats_to_be_recomputed' = TRUE
                     /\ last_call' = Call("range", prop, lo, hi)
                     /\ range_dropped' =
                            (range_dropped \/
                             \E r \in df : ~InRange(r, prop, Get(lo), Get(hi)))
    /\ UNCHANGED <<processed_dataframe, min_num_loc_per_trace, constructed,
                   filtered_stats_dataframe>>

ApplyRangeFilter ==
    \E prop \in PropInputs, p \in ThresholdPairs :
        apply_range_filter(prop, p[1], p[2])

\* _calculate_statistics, mutated: grouped on the reader's processed table
calculate_statistics_processed(rows) ==
    {[tid |-> t, n |-> value_counts(AllRows, t)] :
        t \in {processed_dataframe[r].tid : r \in rows}}

\* _calculate_statistics: one row per tid of the filtered table, n = its count
calculate_statistics(rows) ==
    {[tid |-> t, n |-> value_counts(rows, t)] :
        t \in {processed_dataframe[r].tid : r \in rows}}

\* The filtered_dataframe_stats property
ReadStats ==
    /\ UNCHANGED notProcVars
    /\ constructed
    /\ IF stats_to_be_recomputed /\ ~IsNone(filtered_dataframe)
       THEN /\ filtered_stats_dataframe' =
                    Some(calculate_statistics(Get(filtered_dataframe)))
            /\ stats_to_be_recomputed' = FALSE
       ELSE UNCHANGED <<filtered_stats_dataframe, stats_to_be_recomputed>>
    /\ last_call' = NoArgs("stats")
    /\ UNCHANGED <<processed_dataframe, min_num_loc_per_trace, constructed,
                   filtered_dataframe, range_dropped>>

\* The positions passed as `indices`: one position, counted from 0
IndexInputs == 0..MaxRows

\* get_filtered_dataframe_subset_by_xy_range, mutated: the selection is
\* stored as the filtered table
GetSubsetByXYRangeInPlace ==
    /\ UNCHANGED notProcVars
    /\ constructed
    /\ \E subset \in SUBSET Get(filtered_dataframe) :
          filtered_dataframe' = Some(subset)
    /\ stats_to_be_recomputed' = TRUE
    /\ last_call' = NoArgs("subset_xy")
    /\ UNCHANGED <<processed_dataframe, min_num_loc_per_trace, constructed,
                   filtered_stats_dataframe, range_dropped>>

\* get_filtered_dataframe_subset_by_indices(indices): iloc[indices] returns
\* the selected rows, or raises IndexError for a position past the end
GetSubsetByIndices ==
    /\ UNCHANGED notProcVars
    /\ constructed
    /\ \E i \in IndexInputs :
          last_call' = IF i < Cardinality(Get(filtered_dataframe))
                       THEN NoArgs("subset_indices")
                       ELSE NoArgs("subset_raised")
    /\ UNCHANGED <<processed_dataframe, min_num_loc_per_trace, constructed,
                   filtered_dataframe, filtered_stats_dataframe,
                   stats_to_be_recomputed, range_dropped>>

\* get_filtered_dataframe_subset_by_xy_range(x_range, y_range): .loc[mask]
\* returns the selected rows (the table has no x and y columns here: the
\* rows returned are not computed)
GetSubsetByXYRange ==
    /\ UNCHANGED notProcVars
    /\ constructed
    /\ last_call' = NoArgs("subset_xy")
    /\ UNCHANGED <<processed_dataframe, min_num_loc_per_trace, constructed,
                   filtered_dataframe, filtered_stats_dataframe,
                   stats_to_be_recomputed, range_dropped>>

\* Options.persist_min_num_loc_per_trace: the dialog writes the shared State
SetMinNumLocPerTrace ==
    /\ UNCHANGED notProcVars
    /\ \E m \in MinInputs :
          /\ m # min_num_loc_per_trace
          /\ min_num_loc_per_trace' = m
    /\ last_call' = NoArgs("set_min")
    /\ UNCHANGED <<processed_dataframe, constructed, filtered_dataframe,
                   filtered_stats_dataframe, stats_to_be_recomputed,
                   range_dropped>>

\* ---------------------------------------------------------- MinFluxReader
\* The raw structured array of a file: per event the scalar fields vld and
\* fluo, and `reps` iteration cells.  tid, tim, efo, cfr, eco and dcr hold a
\* value that is distinct for every (event, iteration, field) and the x, y
\* locations differ between iterations, so that a field read from the wrong
\* cell shows in the table; the z location of every cell is the array's z.
\* Locations are whole meters, so that their nanometers stay below 2^31.
MaxEvents == 2
IterationCounts == 1..2
FluoValues == 0..2
ZValues == {0, 1}
ZScalingFactors == {1, 2}
Fields == {"efo", "cfr", "dcr", "eco", "loc"}

RawEvent == [vld : BOOLEAN, fluo : FluoValues]
RawArrays ==
    [events : UNION {[1..n -> RawEvent] : n \in 0..MaxEvents},
     reps : IterationCounts,
     z : ZValues]
EmptyArray == [events |-> <<>>, reps |-> 1, z |-> 0]

\* What the filename names.  The kinds other than "npy", "mat" and "pmx"
\* are the ways in which _load (or __init__) does not get an array:
\*   missing          no such file
\*   unknown_ext      none of .npy, .mat, .pmx
\*   npy_unreadable   np.load raises OSError, ValueError, EOFError ...
\*   npy_unstructured np.load returns an array without named fields
\*   mat_unreadable   convert_from_mat raises
\*   pmx_unreadable   NativeArrayReader().read raises
\*   pmx_rejected     NativeArrayReader().read returns None
ReadableKinds == {"npy", "mat", "pmx"}
UnreadableKinds == {"missing", "unknown_ext", "npy_unreadable", "npy_unstructured",
                    "mat_unreadable", "pmx_unreadable", "pmx_rejected"}
Files ==
    [kind : ReadableKinds, array : RawArrays]
      \cup [kind : UnreadableKinds, array : {EmptyArray}]
ReaderArgs == [file : Files, valid : BOOLEAN, z_scaling_factor : ZScalingFactors]

\* self._unit_scaling_factor: meters to nanometers
unit_scaling_factor == 1000000000

\* The cell itr[e, i] of the raw array (i counts from 0, as in the source).
ItrCell(arr, e, i) ==
    LET base == 100 * e + 10 * i
    IN  [efo |-> base + 1, cfr |-> base + 2, eco |-> base + 3, dcr |-> base + 4,
         loc |-> <<1 + (i % 2), 2 - (i % 2), arr.z>>]
RawTid(e) == 40 + e
RawTim(e) == 50 + e

\* Python's negative index: itr[:, -1] is the last iteration.
PyIndex(i, n) == IF i < 0 THEN n + i ELSE i

\* __init__, lines 84-87: a filename that is no file raises IOError
InitRaises(file) == file.kind = "missing"

\* _load: whether an exception leaves the try blocks.  The .npy branch
\* catches OSError, UnpicklingError, ValueError, EOFError, FileNotFoundError;
\* `"fluo" in data_array.dtype.names` with dtype.names = None is a TypeError.
LoadRaises(file) == file.kind = "npy_unstructured"

\* _load: the array it stores in _data_array, None where it returns False
LoadedArray(file) ==
    IF file.kind \in ReadableKinds THEN Some(file.array) ELSE None

\* _load, lines 270-272: float(np.nanmean(itr[:, -1]["loc"][:, -1])) != 0.0;
\* the mean of no event is NaN, which differs from 0.0
Is3D(arr) ==
    IF Len(arr.events) = 0 THEN TRUE
    ELSE ItrCell(arr, 1, PyIndex(-1, arr.reps)).loc[3] # 0

\* _set_all_indices, lines 467-471
IsAggregated(n) == n = 1

\* find_last_valid_iteration (pyminflux.reader.util): one iteration index per
\* field, resolved from the array
LastValidResults(arr) == [Fields -> 0..(arr.reps - 1)]

NoIndices == [f \in Fields |-> -1]

\* MinFluxReader.__init__, with the _load and _set_all_indices it calls
NewReader ==
    /\ UNCHANGED notReaderVars
    /\ reader_status = "none"
    /\ \E args \in ReaderArgs :
          /\ reader_args' = Some(args)
          /\ IF InitRaises(args.file) \/ LoadRaises(args.file)
             THEN /\ reader_status' = "raised"
                  /\ UNCHANGED <<data_array, is_3d, is_aggregated, reps,
                                 last_valid, searched>>
             ELSE /\ reader_status' = "ok"
                  /\ data_array' = LoadedArray(args.file)
                  /\ IF IsNone(LoadedArray(args.file))
                     THEN UNCHANGED <<is_3d, is_aggregated, reps, last_valid,
                                      searched>>
                     ELSE LET arr == args.file.array
                          IN  /\ is_3d' = Is3D(arr)
                              /\ reps' = arr.reps
                              /\ is_aggregated' = IsAggregated(arr.reps)
                              /\ searched' = TRUE
                              /\ last_valid' \in LastValidResults(arr)
    /\ UNCHANGED <<data_df, df_returned, process_raised>>

\* _process, lines 310-313: the events selected by the valid flag
SelectedEvents(arr, valid) ==
    {e \in DOMAIN arr.events : arr.events[e].vld = valid}

\* _process, lines 325-327: `if np.all(fluo) == 0`.  np.all(fluo) is True
\* when no selected fluo is zero (also when nothing is selected), and
\* True == 0 is False: the ids are replaced when some selected fluo is zero.
FluoReplaced(arr, sel) == ~(\A e \in sel : arr.events[e].fluo # 0)

ProcessedFluo(arr, sel, e) ==
    IF FluoReplaced(arr, sel) THEN 1 ELSE arr.events[e].fluo

\* _process, lines 353-366: each field is read at its own index
FieldIndex(f) == last_valid[f]

\* _process, lines 331-369: the cell a field of event e is read from.  The
\* aggregated path takes the only iteration (itr["efo"], itr["loc"].squeeze()).
FieldCell(arr, e, f) ==
    IF is_aggregated THEN ItrCell(arr, e, 0)
    ELSE ItrCell(arr, e, FieldIndex(f))

\* np.around(eco / (efo / 1000.0), decimals=0): round half to even
Dwell(eco, efo) ==
    LET n == eco * 1000
        q == n \div efo
        r == n % efo
    IN  IF 2 * r < efo THEN q
        ELSE IF 2 * r > efo THEN q + 1
        ELSE IF q % 2 = 0 THEN q ELSE q + 1

\* _process: the row of the table made from event e
ProcessedRow(arr, sel, e, zsf) ==
    LET loc == FieldCell(arr, e, "loc").loc
        efo == FieldCell(arr, e, "efo").efo
        eco == FieldCell(arr, e, "eco").eco
    IN  [tid |-> RawTid(e),
         tim |-> RawTim(e),
         x |-> loc[1] * unit_scaling_factor,
         y |-> loc[2] * unit_scaling_factor,
         z |-> loc[3] * unit_scaling_factor * zsf,
         efo |-> efo,
         cfr |-> FieldCell(arr, e, "cfr").cfr,
         eco |-> eco,
         dcr |-> FieldCell(arr, e, "dcr").dcr,
         dwell |-> Dwell(eco, efo),
         fluo |-> ProcessedFluo(arr, sel, e)]

\* The selected events in array order.
RECURSIVE SelectedSeq(_, _, _)
SelectedSeq(arr, valid, e) ==
    IF e > Len(arr.events) THEN <<>>
    ELSE (IF arr.events[e].vld = valid THEN <<e>> ELSE <<>>)
            \o SelectedSeq(arr, valid, e + 1)

\* _process, lines 333-334: itr["loc"].squeeze() drops every axis of length
\* one.  With one iteration and exactly one selected event the (1, 1, 3)
\* array becomes (3,), and loc[:, 2] raises IndexError.
ProcessRaises(args) ==
    /\ ~IsNone(data_array)
    /\ is_aggregated
    /\ Cardinality(SelectedEvents(Get(data_array), args.valid)) = 1

\* _process: None without an array, else the table of the selected events
Process(args) ==
    IF IsNone(data_array) THEN None
    ELSE LET arr == Get(data_array)
             sel == SelectedEvents(arr, args.valid)
             order == SelectedSeq(arr, args.valid, 1)
         IN  Some([k \in DOMAIN order |->
                      ProcessedRow(arr, sel, order[k], args.z_scaling_factor)])

\* The processed_dataframe property: _process on the first read, the cached
\* table afterwards
ReadProcessedDataframe ==
    /\ UNCHANGED notReaderVars
    /\ reader_status = "ok"
    /\ IF ~IsNone(data_df)
       THEN /\ df_returned' = Some(data_df)
            /\ process_raised' = FALSE
            /\ UNCHANGED data_df
       ELSE IF ProcessRaises(Get(reader_args))
       THEN /\ df_returned' = None
            /\ process_raised' = TRUE
            /\ UNCHANGED data_df
       ELSE /\ data_df' = Process(Get(reader_args))
            /\ df_returned' = Some(Process(Get(reader_args)))
            /\ process_raised' = FALSE
    /\ UNCHANGED <<reader_status, reader_args, data_array, is_3d, is_aggregated,
                   reps, last_valid, searched>>

\* No other analysis function has been called.
CallIdle ==
    /\ call_args = [fn |-> "none"]
    /\ call_result = None

\* The objects that keep a reference to the State in self.state.
Holders == {"options", "processor", "analyzer"}

\* State() has not been called.
StateIdle ==
    /\ instances = None
    /\ objects = <<>>
    /\ holders = [h \in Holders |-> None]
    /\ state_call = [op |-> "none", holder |-> ""]

\* The Analyzer dialog has not been opened.
AnalyzerIdle ==
    /\ analyzer_columns = [efo |-> <<>>, cfr |-> <<>>]
    /\ analyzer_thresholds = [efo |-> None, cfr |-> None]
    /\ buttons_enabled = TRUE
    /\ analyzer_call = [op |-> "none", plotting_started |-> 0,
                        plotting_completed |-> 0, raised |-> None]

\* No histogram function has been called.
HistIdle ==
    /\ hist_args = [fn |-> "prepare_histogram", values |-> <<>>,
                    normalize |-> TRUE, auto_bins |-> TRUE,
                    scott |-> FALSE, bin_size |-> 0]
    /\ hist_result = None

ReaderIdle ==
    /\ reader_status = "none"
    /\ reader_args = None
    /\ data_array = None
    /\ is_3d = FALSE
    /\ is_aggregated = FALSE
    /\ reps = -1
    /\ last_valid = NoIndices
    /\ data_df = None
    /\ df_returned = None
    /\ process_raised = FALSE
    /\ searched = FALSE

ProcIdle ==
    /\ processed_dataframe = <<>>
    /\ min_num_loc_per_trace = 1
    /\ constructed = FALSE
    /\ filtered_dataframe = None
    /\ filtered_stats_dataframe = None
    /\ stats_to_be_recomputed = FALSE
    /\ last_call = NoArgs("none")
    /\ range_dropped = FALSE

\* No reader exists yet; its construction is the first step.
ReaderInit == ReaderIdle /\ ProcIdle /\ HistIdle /\ CallIdle /\ StateIdle /\ AnalyzerIdle

ReaderNext ==
    \/ NewReader
    \/ ReadProcessedDataframe

ReaderSpec == ReaderInit /\ [][ReaderNext]_vars

\* ------------------------------------------------------ analysis: histograms
\* A float is NaN or a whole number v: NaN is <<>>, v is <<v>>.
NaN == <<>>
Fin(v) == <<v>>
IsNaN(x) == x = <<>>
Val(x) == x[1]

\* Largest number of values passed to a histogram function.
MaxValues == 5
FiniteInputs == -2..2
FloatInputs == {Fin(v) : v \in FiniteInputs} \cup {NaN}
BinSizeInputs == -1..3

\* The histogram functions do not depend on the order of the values, so one
\* array stands for its permutations: ascending, the NaNs last.
FloatLeq(a, b) == IsNaN(b) \/ (~IsNaN(a) /\ Val(a) <= Val(b))
ValueArrays ==
    UNION {{a \in [1..n -> FloatInputs] :
               \A i \in 1..(n - 1) : FloatLeq(a[i], a[i + 1])} :
             n \in 0..MaxValues}

\* The arguments of a call of prepare_histogram or of hist_bins (fn names
\* the function; hist_bins takes values and bin_size only).  scott=True only
\* changes the factor of the automatic bin width from 2.0 to 2.59; the calls
\* modelled use the default.
HistArgs ==
    [fn : {"prepare_histogram"}, values : ValueArrays, normalize : {TRUE},
     auto_bins : {TRUE}, scott : {FALSE}, bin_size : {0}]
      \cup [fn : {"prepare_histogram"}, values : ValueArrays, normalize : {TRUE},
            auto_bins : {FALSE}, scott : {FALSE}, bin_size : BinSizeInputs]
      \cup [fn : {"hist_bins"}, values : ValueArrays, normalize : {TRUE},
            auto_bins : {FALSE}, scott : {FALSE}, bin_size : BinSizeInputs]
      \cup [fn : {"ideal_hist_bins"}, values : ValueArrays, normalize : {TRUE},
            auto_bins : {TRUE}, scott : {FALSE}, bin_size : {0}]

Abs(i) == IF i < 0 THEN -i ELSE i
Cube(i) == i * i * i

\* Python's int(a / b): the quotient truncated towards zero (b # 0)
TruncDiv(a, b) ==
    IF (a >= 0) = (b > 0) THEN Abs(a) \div Abs(b) ELSE -(Abs(a) \div Abs(b))

\* math.floor(a / b) (b # 0)
FloorDiv(a, b) == IF b > 0 THEN a \div b ELSE (-a) \div (-b)

HasNaN(values) == \E i \in DOMAIN values : IsNaN(values[i])
FiniteSet(values) == {Val(values[i]) : i \in {j \in DOMAIN values : ~IsNaN(values[j])}}
NumFinite(values) == Cardinality({j \in DOMAIN values : ~IsNaN(values[j])})
SetMin(S) == CHOOSE m \in S : \A x \in S : m <= x
SetMax(S) == CHOOSE m \in S : \A x \in S : m >= x

\* The non-NaN values in ascending order (the arrays are kept ascending).
FiniteSorted(values) == SubSeq(values, 1, NumFinite(values))

\* A bin width is num / (den * root^(1/3)), with den > 0 and root >= 1.
Width(num, den, root) == [num |-> num, den |-> den, root |-> root]

\* What a histogram function gives back.
Raised(error) == [status |-> "raised", error |-> error]
\* Regular bins: num_edges edges, the j-th (from 0) at start + (2j - 1) * width / 2
RegularBins(start, num_edges, width) ==
    [status |-> "ok", kind |-> "regular", start |-> start,
     num_edges |-> num_edges, width |-> width]
\* The single bin (v - 5e-7, v + 5e-7) of width 1e-6
SingleBin(v) ==
    [status |-> "ok", kind |-> "single", start |-> v, num_edges |-> 2,
     width |-> Width(1, 1000000, 1)]

\* np.arange(start, stop, step) with stop - start = (num_bins + 1/2) * step:
\* ceil(num_bins + 1/2) elements, none when that is not positive
ArangeLength(num_bins) == IF num_bins >= 0 THEN num_bins + 1 ELSE 0

\* hist_bins, mutated: the bin-size check made before the first use
hist_bins_checked_first(values, bin_size) ==
    IF Len(values) = 0 THEN Raised("ValueError: No data.")
    ELSE IF bin_size <= 0 THEN Raised("ValueError: bin_size must be a positive number!")
    ELSE IF HasNaN(values) THEN Raised("ValueError: cannot convert float NaN to integer")
    ELSE LET min_value == bin_size * TruncDiv(SetMin(FiniteSet(values)), bin_size)
             max_value == SetMax(FiniteSet(values))
             num_bins == FloorDiv(max_value - min_value, bin_size) + 1
         IN  RegularBins(min_value, ArangeLength(num_bins), Width(bin_size, 1, 1))

\* hist_bins(values, bin_size)
hist_bins(values, bin_size) ==
    IF Len(values) = 0 THEN Raised("ValueError: No data.")
    \* int(np.min(values) / bin_size): np.min is NaN with a NaN among the values
    ELSE IF HasNaN(values) THEN Raised("ValueError: cannot convert float NaN to integer")
    \* a numpy float divided by 0 is inf or NaN, which int() refuses
    ELSE IF bin_size = 0 THEN
        (IF SetMin(FiniteSet(values)) = 0
         THEN Raised("ValueError: cannot convert float NaN to integer")
         ELSE Raised("OverflowError: cannot convert float infinity to integer"))
    ELSE IF bin_size <= 0 THEN Raised("ValueError: bin_size must be a positive number!")
    ELSE LET min_value == bin_size * TruncDiv(SetMin(FiniteSet(values)), bin_size)
             max_value == SetMax(FiniteSet(values))
             num_bins == FloorDiv(max_value - min_value, bin_size) + 1
         IN  RegularBins(min_value, ArangeLength(num_bins), Width(bin_size, 1, 1))

\* Four times the p-th quartile (p = 1 or 3) of the ascending finite values
\* s, by linear interpolation between the closest ranks (np.nanpercentile)
Quartile4(s, p) ==
    LET pos4 == p * (Len(s) - 1)
        i == pos4 \div 4
        frac4 == pos4 % 4
    IN  IF frac4 = 0 THEN 4 * Val(s[i + 1])
        ELSE 4 * Val(s[i + 1]) + frac4 * (Val(s[i + 2]) - Val(s[i + 1]))

\* Four times stats.iqr(values, rng=(25, 75), nan_policy="omit")
Iqr4(values) ==
    LET s == FiniteSorted(values)
    IN  Quartile4(s, 3) - Quartile4(s, 1)

\* math.floor(r / w) for r >= 0 and a width w > 0
FloorOverWidth(r, w) ==
    IF w.root = 1 THEN FloorDiv(r * w.den, w.num)
    ELSE CHOOSE k \in 0..(8 * r * w.den + 1) :
            /\ Cube(k * w.num) <= Cube(r * w.den) * w.root
            /\ Cube((k + 1) * w.num) > Cube(r * w.den) * w.root

\* np.all(np.diff(values) == 0): a difference with a NaN is NaN, not 0
AllDiffsZero(values) ==
    \A i \in 1..(Len(values) - 1) :
        ~IsNaN(values[i]) /\ ~IsNaN(values[i + 1]) /\ Val(values[i]) = Val(values[i + 1])

\* ideal_hist_bins(values, scott=False)
ideal_hist_bins(values) ==
    IF Len(values) = 0 THEN Raised("ValueError: No data.")
    ELSE IF AllDiffsZero(values) THEN
        (IF IsNaN(values[1]) THEN [status |-> "ok", kind |-> "nan", num_edges |-> 2]
         ELSE SingleBin(Val(values[1])))
    \* np.min is NaN: math.floor((max_value - min_value) / bin_size) refuses it
    ELSE IF HasNaN(values) THEN Raised("ValueError: cannot convert float NaN to integer")
    ELSE LET min_value == SetMin(FiniteSet(values))
             max_value == SetMax(FiniteSet(values))
             iqr4 == Iqr4(values)
             \* bin_size = 2 * iqr / n^(1/3), or 0.5 * (min + max) when that is 0
             bin_size == IF iqr4 # 0 THEN Width(iqr4, 2, NumFinite(values))
                         ELSE Width(min_value + max_value, 2, 1)
         IN  IF bin_size.num = 0
             THEN Raised("OverflowError: cannot convert float infinity to integer")
             ELSE IF bin_size.num < 0
             THEN RegularBins(min_value,
                     ArangeLength(FloorDiv((max_value - min_value) * bin_size.den,
                                           bin_size.num) + 1),
                     bin_size)
             ELSE RegularBins(min_value,
                     ArangeLength(FloorOverWidth(max_value - min_value, bin_size) + 1),
                     bin_size)

\* v >= edge j of regular bins with a positive width:
\*   v >= start + (2j - 1) * num / (2 * den * root^(1/3)),
\* both sides cubed
AtOrAboveEdge(v, bins, j) ==
    Cube(2 * bins.width.den * (v - bins.start)) * bins.width.root
        >= Cube((2 * j - 1) * bins.width.num)
AboveEdge(v, bins, j) ==
    Cube(2 * bins.width.den * (v - bins.start)) * bins.width.root
        > Cube((2 * j - 1) * bins.width.num)

\* np.histogram(values, bins=bin_edges): bin j holds the values v with
\* edge[j] <= v < edge[j+1], the last bin those with edge[j] <= v <= edge[j+1]
BinCount(values, bins, j) ==
    LET last == bins.num_edges - 2
    IN  Cardinality({i \in DOMAIN values :
            /\ AtOrAboveEdge(Val(values[i]), bins, j)
            /\ IF j = last THEN ~AboveEdge(Val(values[i]), bins, j + 1)
               ELSE ~AtOrAboveEdge(Val(values[i]), bins, j + 1)})

Histogram(values, bins) ==
    IF bins.kind = "single"
    THEN <<Cardinality({i \in DOMAIN values : Val(values[i]) = bins.start})>>
    \* a NaN sorts last: the bin (nan, nan) holds the NaN
    ELSE IF bins.kind = "nan" THEN <<Len(values)>>
    ELSE [j \in 1..(IF bins.num_edges >= 2 THEN bins.num_edges - 1 ELSE 0) |->
             BinCount(values, bins, j - 1)]

RECURSIVE SeqSum(_)
SeqSum(q) == IF q = <<>> THEN 0 ELSE q[1] + SeqSum(Tail(q))

\* n / n.sum(): each count over the total (0 / 0 is NaN, and no count at
\* all leaves an empty array)
Normalized(n) == [j \in DOMAIN n |-> [num |-> n[j], den |-> SeqSum(n)]]

\* prepare_histogram(values, normalize, auto_bins, scott, bin_size)
prepare_histogram(a) ==
    LET bins == IF a.auto_bins THEN ideal_hist_bins(a.values)
                ELSE IF a.bin_size = 0
                THEN Raised("Exception: Please provide a valid value for bin_size")
                ELSE hist_bins(a.values, a.bin_size)
    IN  IF bins.status = "raised" THEN bins
        ELSE LET n == Histogram(a.values, bins)
             IN  [status |-> "ok",
                  n |-> IF a.normalize THEN Normalized(n) ELSE n,
                  bins |-> bins]

\* A call of prepare_histogram
PrepareHistogram ==
    /\ UNCHANGED notHistVars
    /\ IsNone(hist_result)
    /\ hist_args.fn = "prepare_histogram"
    /\ hist_result' = Some(prepare_histogram(hist_args))
    /\ UNCHANGED hist_args

\* A call of hist_bins
HistBins ==
    /\ UNCHANGED notHistVars
    /\ IsNone(hist_result)
    /\ hist_args.fn = "hist_bins"
    /\ hist_result' = Some(hist_bins(hist_args.values, hist_args.bin_size))
    /\ UNCHANGED hist_args

\* A call of ideal_hist_bins
IdealHistBins ==
    /\ UNCHANGED notHistVars
    /\ IsNone(hist_result)
    /\ hist_args.fn = "ideal_hist_bins"
    /\ hist_result' = Some(ideal_hist_bins(hist_args.values))
    /\ UNCHANGED hist_args

\* The arguments of one call of a histogram function; the call is the step.
HistInit ==
    /\ ProcIdle
    /\ ReaderIdle
    /\ StateIdle
    /\ AnalyzerIdle
    /\ hist_args \in HistArgs
    /\ hist_result = None
    /\ CallIdle

HistNext ==
    \/ PrepareHistogram
    \/ HistBins
    \/ IdealHistBins

HistSpec == HistInit /\ [][HistNext]_vars

\* ------------------------------------------- analysis: get_robust_threshold
\* Every other analysis function is one call: Init draws the arguments, the
\* call is the step.
Called == ~IsNone(call_result)
CallResult == Get(call_result)
Returns(result) ==
    /\ UNCHANGED notCallVars
    /\ IsNone(call_result)
    /\ call_result' = Some(result)
    /\ UNCHANGED call_args

FactorInputs == -1..2
ThresholdArgs ==
    [fn : {"get_robust_threshold"}, values : ValueArrays, factor : FactorInputs]

\* The k-th smallest element (k from 1) of the sequence d of integers
KthSmallest(d, k) ==
    CHOOSE v \in {d[i] : i \in DOMAIN d} :
        /\ Cardinality({i \in DOMAIN d : d[i] < v}) < k
        /\ Cardinality({i \in DOMAIN d : d[i] <= v}) >= k

\* Twice np.median(d): the middle element, or the sum of the two middle ones
Median2(d) ==
    LET n == Len(d)
    IN  IF n % 2 = 1 THEN 2 * KthSmallest(d, (n + 1) \div 2)
        ELSE KthSmallest(d, n \div 2) + KthSmallest(d, n \div 2 + 1)

\* The results are counted in units of 1 / (4 * 67449), in which the median,
\* the scaled median absolute deviation (scale = 0.67449) and the thresholds
\* of whole-number inputs are whole numbers.
MadScale == 67449
MadScaleDen == 100000

AllNone == [status |-> "none"]

\* get_robust_threshold, lines 186-192, on the values left after NaN removal
RobustStats(work_values, factor, values) ==
    LET w == [i \in DOMAIN work_values |-> Val(work_values[i])]
        med2 == Median2(w)
        \* 4 * median(|w - med|): the deviations doubled, their median doubled
        mad4 == Median2([i \in DOMAIN w |-> Abs(2 * w[i] - med2)])
        med == med2 * 2 * MadScale
        mad == mad4 * MadScaleDen
        step == factor * mad
    IN  [status |-> "ok", upper |-> med + step, lower |-> med - step,
         med |-> med, mad |-> mad,
         \* the caller's array after the call: the function works on a copy
         values_after |-> values]

\* get_robust_threshold, mutated: a NaN anywhere gives up
get_robust_threshold_nan_fails(values, factor) ==
    IF NumFinite(values) = 0 \/ HasNaN(values) THEN AllNone
    ELSE RobustStats(FiniteSorted(values), factor, values)

\* get_robust_threshold(values, factor)
get_robust_threshold(values, factor) ==
    IF NumFinite(values) = 0 THEN AllNone
    ELSE RobustStats(FiniteSorted(values), factor, values)

GetRobustThreshold ==
    /\ call_args.fn = "get_robust_threshold"
    /\ Returns(get_robust_threshold(call_args.values, call_args.factor))

ThresholdInit ==
    /\ ProcIdle
    /\ ReaderIdle
    /\ StateIdle
    /\ AnalyzerIdle
    /\ HistIdle
    /\ call_args \in ThresholdArgs
    /\ call_result = None

ThresholdNext ==
    \/ GetRobustThreshold

ThresholdSpec == ThresholdInit /\ [][ThresholdNext]_vars

\* ----------------------------------------- analysis: find_first_peak_bounds
\* Largest number of histogram bins passed to find_first_peak_bounds.
MaxBins == 5
CountInputs == 0..2
\* min_rel_prominence in percent, med_filter_support, and the bin width
RelProminenceInputs == {1, 100}
SupportInputs == {1, 3, 5}
BinWidthInputs == {1, 3}

\* The bin centers: an ascending regular grid, one per count
BinCenters(n, w) == [i \in 1..n |-> w * i]

PeakArgs ==
    UNION {[fn : {"find_first_peak_bounds"},
            counts : [1..n -> CountInputs],
            bins : {BinCenters(n, w) : w \in BinWidthInputs},
            min_rel_prominence : RelProminenceInputs,
            med_filter_support : SupportInputs] : n \in 1..MaxBins}

\* scipy.ndimage mode="reflect" (d c b a | a b c d | d c b a): the position
\* inside 1..n that position p outside of it reads
RECURSIVE Reflect(_, _)
Reflect(p, n) ==
    IF p < 1 THEN Reflect(1 - p, n)
    ELSE IF p > n THEN Reflect(2 * n + 1 - p, n)
    ELSE p

\* median_filter(counts, footprint=np.ones(support)), support odd
median_filter(counts, support) ==
    LET h == support \div 2
        n == Len(counts)
    IN  [i \in 1..n |->
            KthSmallest([k \in 1..support |-> counts[Reflect(i - h + k - 1, n)]],
                        h + 1)]

SeqMax(x) == SetMax({x[i] : i \in DOMAIN x})
SeqMin(x) == SetMin({x[i] : i \in DOMAIN x})

\* scipy.signal find_peaks, local maxima: the middle of every plateau that
\* has a strictly lower sample right before and right after it (the first
\* and the last sample are never part of a peak)
LocalMaxima(x) ==
    LET n == Len(x)
    IN  {(l + r) \div 2 : <<l, r>> \in
            {lr \in (2..(n - 1)) \X (2..(n - 1)) :
                /\ lr[1] <= lr[2]
                /\ \A k \in lr[1]..lr[2] : x[k] = x[lr[1]]
                /\ x[lr[1] - 1] < x[lr[1]]
                /\ x[lr[2] + 1] < x[lr[1]]}}

\* scipy.signal peak_prominences: the peak's height above the higher of the
\* two lowest points between it and the next higher sample on either side
Prominence(x, p) ==
    LET left == {i \in 1..p : \A k \in i..p : x[k] <= x[p]}
        right == {i \in p..Len(x) : \A k \in p..i : x[k] <= x[p]}
        left_min == SetMin({x[i] : i \in left})
        right_min == SetMin({x[i] : i \in right})
    IN  x[p] - (IF left_min > right_min THEN left_min ELSE right_min)

\* find_peaks(x, prominence=(min_prominence, None)) with
\* min_prominence = min_rel_prominence * (x.max() - x.min()), in percent
find_peaks(x, range, rel) ==
    {p \in LocalMaxima(x) : 100 * Prominence(x, p) >= rel * range}

NoBounds == [status |-> "none"]
Bounds(lo, hi) == [status |-> "ok", lower_bound |-> lo, upper_bound |-> hi]

\* find_first_peak_bounds, lines 310-325: the minima next to the first peak
NearestMinima(first_peak, peaks_inv, bins) ==
    LET candidates_left == {q \in peaks_inv : q < first_peak}
        candidates_right == {q \in peaks_inv : q > first_peak}
    IN  Bounds(IF candidates_left = {} THEN bins[1]
               ELSE bins[SetMax(candidates_left)],
               IF candidates_right = {} THEN bins[Len(bins)]
               ELSE bins[SetMin(candidates_right)])

\* find_first_peak_bounds, mutated: the minima are looked at first
PeakBoundsMinimaFirst(peaks, peaks_inv, bins) ==
    IF peaks_inv = {} THEN Bounds(bins[1], bins[Len(bins)])
    ELSE IF peaks = {} THEN NoBounds
    ELSE NearestMinima(SetMin(peaks), peaks_inv, bins)

\* find_first_peak_bounds, lines 302-325: the bounds from the maxima and minima
PeakBounds(peaks, peaks_inv, bins) ==
    IF peaks = {} THEN NoBounds
    ELSE IF peaks_inv = {} THEN Bounds(bins[1], bins[Len(bins)])
    ELSE NearestMinima(SetMin(peaks), peaks_inv, bins)

\* The median-filtered counts and their mirror image x.max() - x
Filtered(a) == median_filter(a.counts, a.med_filter_support)
Inverted(x) == [i \in DOMAIN x |-> SeqMax(x) - x[i]]
Maxima(a) ==
    LET x == Filtered(a)
    IN  find_peaks(x, SeqMax(x) - SeqMin(x), a.min_rel_prominence)
Minima(a) ==
    LET x == Filtered(a)
    IN  find_peaks(Inverted(x), SeqMax(x) - SeqMin(x), a.min_rel_prominence)

\* find_first_peak_bounds(counts, bins, min_rel_prominence, med_filter_support)
find_first_peak_bounds(a) == PeakBounds(Maxima(a), Minima(a), a.bins)

FindFirstPeakBounds ==
    /\ call_args.fn = "find_first_peak_bounds"
    /\ Returns(find_first_peak_bounds(call_args))

PeakInit ==
    /\ ProcIdle
    /\ ReaderIdle
    /\ StateIdle
    /\ AnalyzerIdle
    /\ HistIdle
    /\ call_args \in PeakArgs
    /\ call_result = None

PeakNext ==
    \/ FindFirstPeakBounds

PeakSpec == PeakInit /\ [][PeakNext]_vars

\* ------------------------------------------------------ analysis: render_xy
\* Largest number of localizations passed to render_xy.
MaxPoints == 2
XInputs == {-1, 0, 3, 5, 6}
YInputs == {0, 3, 6}
Localizations == XInputs \X YInputs
ResolutionInputs == {1, 2}
\* rx, ry: omitted, or the range (0, 6)
RangeInputs == {None, Some(<<0, 6>>)}
\* fwhm, counted in halves: omitted, or 0.5
FwhmInputs == {None, Some(1)}

\* The localizations in ascending order: rendering treats every point alike.
PointLeq(a, b) == a[1] < b[1] \/ (a[1] = b[1] /\ a[2] <= b[2])
PointArrays ==
    UNION {{a \in [1..n -> Localizations] :
               \A i \in 1..(n - 1) : PointLeq(a[i], a[i + 1])} :
             n \in 0..MaxPoints}

RenderArgs ==
    [fn : {"render_xy"}, points : PointArrays, sx : ResolutionInputs, sy : {1},
     rx : RangeInputs, ry : RangeInputs,
     render_type : {"histogram"}, fwhm : {None}]
      \cup [fn : {"render_xy"}, points : PointArrays, sx : ResolutionInputs, sy : {1},
            rx : RangeInputs, ry : RangeInputs,
            render_type : {"fixed_gaussian"}, fwhm : FwhmInputs]

\* int(np.ceil(a / b)) for b > 0
CeilDiv(a, b) == -((-a) \div b)

\* np.round(a / b) for b > 0: to the nearest integer, a half to the even one
RoundDiv(a, b) ==
    LET q == a \div b
        r == a % b
    IN  IF 2 * r < b THEN q
        ELSE IF 2 * r > b THEN q + 1
        ELSE IF q % 2 = 0 THEN q ELSE q + 1

\* rx = (x.min(), x.max()) when omitted; c is the coordinate (1 = x, 2 = y)
DefaultRange(points, r, c) ==
    IF ~IsNone(r) THEN Get(r)
    ELSE LET cs == {points[i][c] : i \in DOMAIN points}
         IN  <<SetMin(cs), SetMax(cs)>>

\* ix = np.round((x - rx[0]) / sx).astype(int)
PixelIndex(v, r, res) == RoundDiv(v - r[1], res)

\* L = int(np.ceil(2 * max(fwhm / sx, fwhm / sy))), with the default
\* fwhm = 3 * sqrt(sx^2 + sy^2); fwhm2 is twice the fwhm
KernelHalfWidth(fwhm2, sx, sy) ==
    LET smin == IF sx < sy THEN sx ELSE sy
    IN  IF ~IsNone(fwhm2) THEN CeilDiv(Get(fwhm2), smin)
        ELSE CHOOSE L \in 0..(12 * (sx + sy)) :
                /\ L * L * smin * smin >= 36 * (sx * sx + sy * sy)
                /\ (L - 1) * (L - 1) * smin * smin < 36 * (sx * sx + sy * sy)

\* The positions of the TRUE entries of a mask, in order
RECURSIVE Kept(_, _)
Kept(mask, i) ==
    IF i > Len(mask) THEN <<>>
    ELSE (IF mask[i] THEN <<i>> ELSE <<>>) \o Kept(mask, i + 1)

\* render_xy, mutated: the border mask is written back into the first mask
GaussianMaskPerInput(in_image, near_border) ==
    LET kept == Kept(in_image, 1)
    IN  [i \in DOMAIN in_image |->
            \E j \in DOMAIN kept : kept[j] = i /\ near_border[j]]

\* render_xy, line 716: m is replaced by the mask over the points kept so far
GaussianMask(in_image, near_border) == near_border

\* line 686, mutated: the upper limit is included
InImageInclusive(i, n) == i >= 0 /\ i <= n

\* line 686: (ix >= 0) & (ix < Nx), and the same for iy and Ny
InImage(i, n) == i >= 0 /\ i < n

\* render_xy(x, y, sx, sy, rx, ry, render_type, fwhm)
render_xy(a) ==
    IF Len(a.points) = 0 /\ (IsNone(a.rx) \/ IsNone(a.ry))
    THEN Raised("ValueError: zero-size array to reduction operation minimum")
    ELSE
    LET N == Len(a.points)
        rx == DefaultRange(a.points, a.rx, 1)
        ry == DefaultRange(a.points, a.ry, 2)
        Nx == CeilDiv(rx[2] - rx[1], a.sx)
        Ny == CeilDiv(ry[2] - ry[1], a.sy)
        ix == [i \in 1..N |-> PixelIndex(a.points[i][1], rx, a.sx)]
        iy == [i \in 1..N |-> PixelIndex(a.points[i][2], ry, a.sy)]
        \* m = (ix >= 0) & (ix < Nx) & (iy >= 0) & (iy < Ny)
        in_image == [i \in 1..N |-> InImage(ix[i], Nx) /\ InImage(iy[i], Ny)]
        kept == Kept(in_image, 1)
        L == KernelHalfWidth(a.fwhm, a.sx, a.sy)
        \* m = (ix >= L + 1) & (ix < Nx - L - 1) & (iy > L + 1) & (iy < Ny - L - 1)
        near_border == [j \in DOMAIN kept |->
                           /\ ix[kept[j]] >= L + 1
                           /\ ix[kept[j]] < Nx - L - 1
                           /\ iy[kept[j]] > L + 1
                           /\ iy[kept[j]] < Ny - L - 1]
        \* the axes, doubled: 2 * (rx[0] + k * sx + sx / 2)
        xi2 == [k \in 1..Nx |-> 2 * rx[1] + 2 * (k - 1) * a.sx + a.sx]
        yi2 == [k \in 1..Ny |-> 2 * ry[1] + 2 * (k - 1) * a.sy + a.sy]
        \* the (row, column) pairs h is indexed with: h[Ny - iy[i] - 1, ix[i]]
        \* (lines 696-699) and h[Ny - (iy[i] + g) - 1, ix[i] + g] for g in
        \* -L..L (lines 727-741)
        written_histogram ==
            {<<Ny - iy[kept[j]] - 1, ix[kept[j]]>> : j \in DOMAIN kept}
        written_gaussian ==
            UNION {{<<Ny - (iy[kept[j]] + g[1]) - 1, ix[kept[j]] + g[2]>> :
                        g \in ((-L)..L) \X ((-L)..L)} :
                     j \in {k \in DOMAIN kept : near_border[k]}}
    IN  IF a.render_type = "histogram"
        THEN [status |-> "ok", Nx |-> Nx, Ny |-> Ny, ix |-> ix, iy |-> iy,
              \* h[Ny - iy - 1, ix] += 1 for every kept point
              h |-> [cell \in (0..(Ny - 1)) \X (0..(Nx - 1)) |->
                        Cardinality({j \in DOMAIN kept :
                            /\ Ny - iy[kept[j]] - 1 = cell[1]
                            /\ ix[kept[j]] = cell[2]})],
              contributed |-> {kept[j] : j \in DOMAIN kept},
              xi2 |-> xi2, yi2 |-> yi2, m |-> in_image,
              written |-> written_histogram]
        ELSE [status |-> "ok", Nx |-> Nx, Ny |-> Ny, ix |-> ix, iy |-> iy,
              \* the image holds one Gaussian per point that passed both masks
              contributed |-> {kept[j] : j \in {k \in DOMAIN kept : near_border[k]}},
              xi2 |-> xi2, yi2 |-> yi2, m |-> GaussianMask(in_image, near_border),
              written |-> written_gaussian]

RenderXY ==
    /\ call_args.fn = "render_xy"
    /\ Returns(render_xy(call_args))

RenderInit ==
    /\ ProcIdle
    /\ ReaderIdle
    /\ StateIdle
    /\ AnalyzerIdle
    /\ HistIdle
    /\ call_args \in RenderArgs
    /\ call_result = None

RenderNext ==
    \/ RenderXY

RenderSpec == RenderInit /\ [][RenderNext]_vars

\* ------------------------------------------ fourier: estimate_resolution_by_frc
\* A call is made twice with the same arguments (two runs); every run is a
\* sequence of steps: the generator is created, then one step per repetition.
RepsInputs == 1..2
SeedInputs == {None, Some(0), Some(1)}
\* What the operating system's entropy seeds an unseeded generator with.
EntropyInputs == 0..2
NumRuns == 2

FrcArgs ==
    [fn : {"estimate_resolution_by_frc"}, points : PointArrays,
     num_reps : RepsInputs, seed : SeedInputs,
     rx : RangeInputs, ry : RangeInputs,
     sx : {1}, sy : {1}, render_type : {"histogram"}, fwhm : {None}]

\* The k-th double (k from 1) of the generator seeded with `seed`, in tenths:
\* a fixed function of the seed and of k standing for the PCG64 stream.
Uniform10(seed, k) == ((seed + 2) * k * k * k + k) % 10

\* rng.random(size=x.shape) < 0.5 with the generator at position pos
Draw(rng, n) == [i \in 1..n |-> Uniform10(rng.seed, rng.pos + i) < 5]

\* np.random.default_rng(seed), mutated: the seed is not passed on
default_rng_unseeded(seed) ==
    {[seed |-> e, pos |-> 0] : e \in EntropyInputs}

\* np.random.default_rng(seed), lines 286-290: the generators it can give
default_rng(seed) ==
    IF ~IsNone(seed) THEN {[seed |-> Get(seed), pos |-> 0]}
    ELSE {[seed |-> e, pos |-> 0] : e \in EntropyInputs}

\* x[ix], y[ix]
Subset(points, mask) ==
    LET kept == Kept(mask, 1)
    IN  [j \in DOMAIN kept |-> points[kept[j]]]

\* lines 297-299: both ranges are replaced when one of them is omitted
FrcRanges(a) ==
    IF IsNone(a.rx) \/ IsNone(a.ry)
    THEN <<DefaultRange(a.points, None, 1), DefaultRange(a.points, None, 2)>>
    ELSE <<Get(a.rx), Get(a.ry)>>

\* lines 311-323: the image of one half of the data
HalfImage(a, half) ==
    render_xy([fn |-> "render_xy", points |-> half, sx |-> a.sx, sy |-> a.sy,
               rx |-> Some(FrcRanges(a)[1]), ry |-> Some(FrcRanges(a)[2]),
               render_type |-> a.render_type, fwhm |-> a.fwhm]).h

\* One pass of the loop, lines 304-334: the partition, the two images, and
\* the generator after the draw.  The resolution and the curve of the
\* repetition are computed from h1 and h2 by img_fourier_ring_correlation,
\* which draws nothing.
Repetition(a, rng) ==
    LET ix == Draw(rng, Len(a.points))
        c_ix == [i \in DOMAIN ix |-> ~ix[i]]
    IN  [ix |-> ix,
         h1 |-> HalfImage(a, Subset(a.points, ix)),
         h2 |-> HalfImage(a, Subset(a.points, c_ix)),
         rng |-> [seed |-> rng.seed, pos |-> rng.pos + Len(a.points)]]

\* x.min() of no point raises when a range is omitted
FrcRaises(a) == Len(a.points) = 0 /\ (IsNone(a.rx) \/ IsNone(a.ry))

FrcRuns == IF IsNone(call_result) THEN <<>> ELSE Get(call_result)
RunFinished(run) == run.raised \/ Len(run.reps) = call_args.num_reps

\* A call of estimate_resolution_by_frc begins: lines 286-302
FrcStartRun ==
    /\ UNCHANGED notCallVars
    /\ call_args.fn = "estimate_resolution_by_frc"
    /\ Len(FrcRuns) < NumRuns
    /\ FrcRuns # <<>> => RunFinished(FrcRuns[Len(FrcRuns)])
    /\ \E rng \in default_rng(call_args.seed) :
          call_result' = Some(Append(FrcRuns,
              [rng |-> rng, reps |-> <<>>, raised |-> FrcRaises(call_args),
               \* (rx, ry) after lines 297-299
               ranges |-> IF FrcRaises(call_args) THEN <<>>
                          ELSE FrcRanges(call_args)]))
    /\ UNCHANGED call_args

\* One repetition of the running call
FrcRepetition ==
    /\ UNCHANGED notCallVars
    /\ call_args.fn = "estimate_resolution_by_frc"
    /\ FrcRuns # <<>>
    /\ LET k == Len(FrcRuns)
           run == FrcRuns[k]
           r == Repetition(call_args, run.rng)
       IN  /\ ~RunFinished(run)
           /\ call_result' = Some([FrcRuns EXCEPT ![k] =
                 [rng |-> r.rng,
                  reps |-> Append(run.reps, [ix |-> r.ix, h1 |-> r.h1, h2 |-> r.h2]),
                  raised |-> FALSE,
                  ranges |-> run.ranges]])
    /\ UNCHANGED call_args

FrcInit ==
    /\ ProcIdle
    /\ ReaderIdle
    /\ StateIdle
    /\ AnalyzerIdle
    /\ HistIdle
    /\ call_args \in FrcArgs
    /\ call_result = None

FrcNext ==
    \/ FrcStartRun
    \/ FrcRepetition

FrcSpec == FrcInit /\ [][FrcNext]_vars

\* -------------------------------------- fourier: img_fourier_ring_correlation
\* The end of the function, lines 192-204, from the binned curve on: the
\* binned frequencies are qi[k] = k * B for k = 0..max_bin, and ci[k] is the
\* binned correlation, a whole number here.  The Fourier transforms and the
\* binning that produce ci are not modelled: every curve is an input.
MaxFrequency == 8
CorrelationInputs == -1..1
SavgolWindow == 7

CurveArgs ==
    UNION {[fn : {"img_fourier_ring_correlation"},
            max_bin : {m},
            ci : [0..m -> CorrelationInputs]] : m \in 0..MaxFrequency}

\* idx = qi < np.max(qi) * 0.8: k * B < max_bin * B * 8 / 10
RetainedBins(max_bin) == {k \in 0..max_bin : 5 * k < 4 * max_bin}

\* savgol_filter(ci, 7, 1) at position j of n: the least-squares line through
\* the window of 7 samples around j (the first and the last 7 at the ends,
\* mode "interp"), evaluated at j.  With the window's samples w[-3..3] the
\* value is (4 * sum(w) + t * sum(x * w[x])) / 28, t the offset of j from the
\* window's middle; Smoothed28 is 28 times the value.
Smoothed28(ci, n, j) ==
    LET half == SavgolWindow \div 2
        mid == IF j < half THEN half
               ELSE IF j > n - 1 - half THEN n - 1 - half
               ELSE j
        t == j - mid
        w(x) == (4 + t * x) * ci[mid + x]
    IN  w(-3) + w(-2) + w(-1) + w(0) + w(1) + w(2) + w(3)

\* ci < 1 / 7 for the smoothed value at position j; a value that is 1/7 in
\* exact arithmetic compares either way once rounded
BelowOutcomes(ci, n, j) ==
    IF Smoothed28(ci, n, j) < 4 THEN {TRUE}
    ELSE IF Smoothed28(ci, n, j) = 4 THEN {TRUE, FALSE}
    ELSE {FALSE}

\* line 201, mutated: the last position below the threshold
CriticalIndexLast(where, n) ==
    IF where # {} THEN SetMax(where) ELSE n - 1

\* line 201: np.where(ci < 1 / 7)[0][0] if np.any(ci < 1 / 7) else the last
\* position; where is the set of positions np.where returns
CriticalIndex(where, n) ==
    IF where # {} THEN SetMin(where) ELSE n - 1

\* img_fourier_ring_correlation, lines 192-204.  q_critical is counted in
\* units of B; estimated_resolution = 1 / q_critical is num / den (den = 0:
\* the division by 0.0 gives inf)
ImgFourierRingCorrelation ==
    /\ call_args.fn = "img_fourier_ring_correlation"
    /\ IsNone(call_result)
    /\ LET n == Cardinality(RetainedBins(call_args.max_bin))
           ties == {j \in 0..(n - 1) : BelowOutcomes(call_args.ci, n, j) = {TRUE, FALSE}}
           sure == {j \in 0..(n - 1) : BelowOutcomes(call_args.ci, n, j) = {TRUE}}
       IN  IF n < SavgolWindow
           THEN \* savgol_filter, mode "interp": the window is longer than the curve
                Returns([status |-> "ValueError"])
           ELSE
           \E rounded_down \in SUBSET ties :
              Returns([status |-> "ok",
                       qi |-> [j \in 0..(n - 1) |-> j],
                       below |-> [j \in 0..(n - 1) |-> j \in sure \cup rounded_down],
                       q_critical |-> CriticalIndex(sure \cup rounded_down, n),
                       estimated_resolution |->
                           [num |-> 1, den |-> CriticalIndex(sure \cup rounded_down, n)]])

CurveInit ==
    /\ ProcIdle
    /\ ReaderIdle
    /\ StateIdle
    /\ AnalyzerIdle
    /\ HistIdle
    /\ call_args \in CurveArgs
    /\ call_result = None

CurveNext ==
    \/ ImgFourierRingCorrelation

CurveSpec == CurveInit /\ [][CurveNext]_vars

\* --------------------------------------- fourier: get_localization_boundaries
\* Coordinates and min_range are whole multiples of 0.5e-6, so that the 1e-6
\* of line 415 is Tiny = 2 of them; alpha is counted in quarters.  Returned
\* boundaries are 8 times the value, which keeps the interpolated quantiles
\* and the half differences whole.
MaxLocalizations == 2
Tiny == 2
BoundaryScale == 8
LateralInputs == {0, 1, 6}
DepthInputs == {0, 1, 3}
AlphaInputs == -1..2
MinRangeInputs == {0, 2, 4}

BoundaryArgs ==
    UNION {[fn : {"get_localization_boundaries"},
            x : [1..n -> LateralInputs],
            y : [1..n -> {0, 6}],
            z : [1..n -> DepthInputs],
            alpha : AlphaInputs,
            min_range : MinRangeInputs] : n \in 1..MaxLocalizations}

\* np.quantile(a, q), linear interpolation between the order statistics
\* around position q * (n - 1); q4 is q in quarters, the result is 8 times
\* the quantile
Quantile8(a, q4) ==
    LET sorted == SortSeq(a, LAMBDA u, v : u < v)
        pos4 == q4 * (Len(a) - 1)
        below == pos4 \div 4
        frac4 == pos4 % 4
        upper == IF below + 2 <= Len(a) THEN sorted[below + 2] ELSE sorted[below + 1]
    IN  2 * (4 * sorted[below + 1] + frac4 * (upper - sorted[below + 1]))

\* np.quantile(x, (alpha, 1 - alpha)), lines 401-403
QuantileRange(a, alpha4) == <<Quantile8(a, alpha4), Quantile8(a, 4 - alpha4)>>

\* lines 406-408 and 410-412: r + (min_range - d) / 2 * [-1, 1] if d < min_range
Widen(r, min_range) ==
    LET d == r[2] - r[1]
        m == BoundaryScale * min_range
    IN  IF d < m
        THEN <<r[1] - (m - d) \div 2, r[2] + (m - d) \div 2>>
        ELSE r

\* lines 414-416, mutated: widened whatever the width
WidenDepthUnguarded(r, min_range) ==
    LET d == r[2] - r[1]
        m == BoundaryScale * min_range
    IN  IF m > d
        THEN <<r[1] - (m - d) \div 2, r[2] + (m - d) \div 2>>
        ELSE r

\* lines 414-416: the same, if min_range > d > 1e-6
WidenDepth(r, min_range) ==
    LET d == r[2] - r[1]
        m == BoundaryScale * min_range
    IN  IF m > d /\ d > BoundaryScale * Tiny
        THEN <<r[1] - (m - d) \div 2, r[2] + (m - d) \div 2>>
        ELSE r

get_localization_boundaries(a) ==
    IF a.alpha < 0 \/ a.alpha >= 2
    THEN [status |-> "ValueError"]
    ELSE [status |-> "ok",
          rx |-> Widen(QuantileRange(a.x, a.alpha), a.min_range),
          ry |-> Widen(QuantileRange(a.y, a.alpha), a.min_range),
          rz |-> WidenDepth(QuantileRange(a.z, a.alpha), a.min_range)]

GetLocalizationBoundaries ==
    /\ call_args.fn = "get_localization_boundaries"
    /\ Returns(get_localization_boundaries(call_args))

BoundaryInit ==
    /\ ProcIdle
    /\ ReaderIdle
    /\ StateIdle
    /\ AnalyzerIdle
    /\ HistIdle
    /\ call_args \in BoundaryArgs
    /\ call_result = None

BoundaryNext ==
    \/ GetLocalizationBoundaries

BoundarySpec == BoundaryInit /\ [][BoundaryNext]_vars

\* ------------------------------------------------ base and state: State
\* Of the fields of State the model keeps min_num_loc_per_trace, the two
\* threshold pairs and cfr_threshold_factor.
MaxObjects == 2
StateFields ==
    {"min_num_loc_per_trace", "efo_thresholds", "cfr_thresholds", "cfr_threshold_factor"}
ThresholdFieldInputs == {None, Some(<<0, 3>>)}
FieldInputs(f) ==
    IF f = "min_num_loc_per_trace" THEN 1..2
    ELSE IF f = "cfr_threshold_factor" THEN 2..3
    ELSE ThresholdFieldInputs

\* State.__init__, lines 32-55
StateDefaults ==
    [min_num_loc_per_trace |-> 1, efo_thresholds |-> None, cfr_thresholds |-> None,
     cfr_threshold_factor |-> 2]

\* Singleton.__call__, line 10, mutated: every call constructs
ConstructsAlways(inst) == TRUE

\* Singleton.__call__, line 10: cls not in cls._instances
Constructs(inst) == IsNone(inst)

\* A holder's __init__ runs self.state = State(): Singleton.__call__
StateCall ==
    /\ UNCHANGED notStateVars
    /\ \E h \in Holders :
          /\ IF Constructs(instances)
             THEN /\ Len(objects) < MaxObjects
                  /\ objects' = Append(objects, StateDefaults)
                  /\ instances' = Some(Len(objects) + 1)
             ELSE UNCHANGED <<objects, instances>>
          /\ holders' = [holders EXCEPT ![h] = instances']
          /\ state_call' = [op |-> "State", holder |-> h]

\* self.state.<field> = v, as in Options.persist_min_num_loc_per_trace
SetField ==
    /\ UNCHANGED notStateVars
    /\ \E h \in Holders, f \in StateFields :
          /\ ~IsNone(holders[h])
          /\ \E v \in FieldInputs(f) :
                objects' = [objects EXCEPT ![Get(holders[h])][f] = v]
          /\ state_call' = [op |-> "write", holder |-> h]
    /\ UNCHANGED <<instances, holders>>

\* State.reset
StateReset ==
    /\ UNCHANGED notStateVars
    /\ \E h \in Holders :
          /\ ~IsNone(holders[h])
          /\ objects' = [objects EXCEPT ![Get(holders[h])] =
                            [@ EXCEPT !.efo_thresholds = None, !.cfr_thresholds = None]]
          /\ state_call' = [op |-> "reset", holder |-> h]
    /\ UNCHANGED <<instances, holders>>

\* State.full_reset
StateFullReset ==
    /\ UNCHANGED notStateVars
    /\ \E h \in Holders :
          /\ ~IsNone(holders[h])
          /\ objects' = [objects EXCEPT ![Get(holders[h])] =
                            [@ EXCEPT !.min_num_loc_per_trace = 1,
                                      !.efo_thresholds = None,
                                      !.cfr_thresholds = None,
                                      !.cfr_threshold_factor = 2]]
          /\ state_call' = [op |-> "full_reset", holder |-> h]
    /\ UNCHANGED <<instances, holders>>

StateInit ==
    ProcIdle /\ ReaderIdle /\ HistIdle /\ CallIdle /\ StateIdle /\ AnalyzerIdle

StateNext ==
    \/ StateCall
    \/ SetField
    \/ StateReset
    \/ StateFullReset

StateSpec == StateInit /\ [][StateNext]_vars

\* ------------------------------------------------------------ ui: Analyzer
\* The dialog plots the efo and cfr columns of the processor's filtered
\* table.  efo is a frequency, cfr a ratio that also takes negative values.
\* The sx, sy and sz columns of the statistics are not negative and hold no
\* NaN (the statistics replace it by 0): prepare_histogram returns for them.
EfoInputs == 1..2
CfrInputs == -1..1
\* A column of n values of S, ascending as the arrays of ValueArrays are
ColumnArrays(S, n) ==
    {a \in [1..n -> {Fin(v) : v \in S}] :
        \A i \in 1..(n - 1) : Val(a[i]) <= Val(a[i + 1])}
AnalyzerTables ==
    UNION {{[efo |-> e, cfr |-> c] :
               e \in ColumnArrays(EfoInputs, n), c \in ColumnArrays(CfrInputs, n)} :
             n \in 0..MaxValues}

\* prepare_histogram(values) with its defaults: normalize, auto_bins
AutoHistogram(values) ==
    prepare_histogram([fn |-> "prepare_histogram", values |-> values,
                       normalize |-> TRUE, auto_bins |-> TRUE,
                       scott |-> FALSE, bin_size |-> 0])

\* What a run of plot() leaves behind: the signals it emitted, the exception
\* that ended it (None when it returned) and the thresholds of the State.
PlotEnded(completed, raised, thresholds) ==
    [plotting_started |-> 1, plotting_completed |-> completed,
     raised |-> raised, thresholds |-> thresholds]

\* "if self.state.<prop>_thresholds is None:
\*      self.state.<prop>_thresholds = (bin_edges[0], bin_edges[-1])":
\* the thresholds become the first and last edge of these bins; bin_edges[0]
\* raises when there is no edge.
NoEdge(thresholds, prop, hist) ==
    IsNone(thresholds[prop]) /\ hist.bins.num_edges = 0
InitialThresholds(thresholds, prop, hist) ==
    IF IsNone(thresholds[prop])
    THEN [thresholds EXCEPT ![prop] = Some(hist.bins)]
    ELSE thresholds

\* Analyzer.plot from the "cfr" histogram on: cfr is what prepare_histogram
\* gave for the cfr column.  The last statement emits plotting_completed.
PlotCfr(thresholds, cfr) ==
    IF cfr.status = "raised" THEN PlotEnded(0, Some(cfr.error), thresholds)
    ELSE IF NoEdge(thresholds, "cfr", cfr)
    THEN PlotEnded(0, Some("IndexError: index 0 is out of bounds"), thresholds)
    ELSE PlotEnded(1, None, InitialThresholds(thresholds, "cfr", cfr))

\* Analyzer.plot from the "efo" histogram on: efo is what prepare_histogram
\* gave for the efo column.
PlotEfo(columns, thresholds, efo) ==
    IF efo.status = "raised" THEN PlotEnded(0, Some(efo.error), thresholds)
    ELSE IF NoEdge(thresholds, "efo", efo)
    THEN PlotEnded(0, Some("IndexError: index 0 is out of bounds"), thresholds)
    ELSE PlotCfr(InitialThresholds(thresholds, "efo", efo),
                 AutoHistogram(columns.cfr))

\* Analyzer.plot, from the emission of plotting_started on.  No statement
\* of plot() catches an exception: one raised between the two emissions ends
\* the call.
plot(columns, thresholds) ==
    \* num_values == 0: the "Sorry, no data." label
    IF Len(columns.efo) = 0 THEN PlotEnded(1, None, thresholds)
    ELSE PlotEfo(columns, thresholds, AutoHistogram(columns.efo))

\* The dialog after a handler op that ran plot(): plotting_started ran
\* disable_buttons and plotting_completed enable_buttons (both connected
\* directly, in setup_conn).
AfterPlot(op, ended) ==
    /\ analyzer_call' = [op |-> op,
                         plotting_started |-> ended.plotting_started,
                         plotting_completed |-> ended.plotting_completed,
                         raised |-> ended.raised]
    /\ analyzer_thresholds' = ended.thresholds
    /\ buttons_enabled' = (ended.plotting_completed = 1)

\* A handler op of the dialog.  One that reaches self.plot() runs it with
\* these thresholds; one that does not has raised before.
Handles(op, thresholds, reaches_plot) ==
    /\ UNCHANGED notAnalyzerVars
    /\ UNCHANGED analyzer_columns
    /\ IF reaches_plot
       THEN AfterPlot(op, plot(analyzer_columns, thresholds))
       ELSE /\ analyzer_call' =
                  [op |-> op, plotting_started |-> 0, plotting_completed |-> 0,
                   raised |-> Some("AttributeError: 'MinFluxProcessor' object has no attribute 'apply_filter'")]
            /\ UNCHANGED <<analyzer_thresholds, buttons_enabled>>

\* analyzer.plot(), called by the main window
Plot == Handles("plot", analyzer_thresholds, TRUE)

\* pbReset clicked: processor.reset() restores the unfiltered table, the
\* thresholds are forgotten, plot() is called
reset_filters ==
    /\ buttons_enabled
    /\ Handles("reset_filters", [efo |-> None, cfr |-> None], TRUE)

\* pbEFORunFilter / pbCFRRunFilter clicked: with thresholds set the handler
\* calls self._minfluxprocessor.apply_filter, which MinFluxProcessor does
\* not define, and ends there; without thresholds it goes on to plot()
RunFilter(prop) ==
    /\ buttons_enabled
    /\ Handles("run_" \o prop \o "_filter", analyzer_thresholds,
               IsNone(analyzer_thresholds[prop]))

run_efo_filter_and_broadcast_viewers_update == RunFilter("efo")
run_cfr_filter_and_broadcast_viewers_update == RunFilter("cfr")

\* The dialog was opened on a processor: no plot yet, the buttons enabled.
AnalyzerInit ==
    /\ ProcIdle
    /\ ReaderIdle
    /\ HistIdle
    /\ CallIdle
    /\ StateIdle
    /\ analyzer_columns \in AnalyzerTables
    /\ analyzer_thresholds = [efo |-> None, cfr |-> None]
    /\ buttons_enabled = TRUE
    /\ analyzer_call = [op |-> "none", plotting_started |-> 0,
                        plotting_completed |-> 0, raised |-> None]

AnalyzerNext ==
    \/ Plot
    \/ reset_filters
    \/ run_efo_filter_and_broadcast_viewers_update
    \/ run_cfr_filter_and_broadcast_viewers_update

AnalyzerSpec == AnalyzerInit /\ [][AnalyzerNext]_vars

\* State.__init__ has run, a file was decoded, no processor exists yet.
Init ==
    /\ processed_dataframe \in Tables
    /\ min_num_loc_per_trace = 1
    /\ constructed = FALSE
    /\ filtered_dataframe = None
    /\ filtered_stats_dataframe = None
    /\ stats_to_be_recomputed = FALSE
    /\ last_call = NoArgs("none")
    /\ range_dropped = FALSE
    /\ ReaderIdle
    /\ StateIdle
    /\ AnalyzerIdle
    /\ HistIdle
    /\ CallIdle

Next ==
    \/ Construct
    \/ ApplyGlobalFilters
    \/ Reset
    \/ ApplyRangeFilter
    \/ ReadStats
    \/ GetSubsetByIndices
    \/ GetSubsetByXYRange
    \/ SetMinNumLocPerTrace

Spec == Init /\ [][Next]_vars

\* ----------------------------------------------------- processor claims
\* The number of rows of the processed table that carry trace id t.
ProcessedCount(t) ==
    Cardinality({q \in AllRows : processed_dataframe[q].tid = t})

\* The rows of the processed table whose trace is long enough for the
\* current min_num_loc_per_trace.
LongTraceRows ==
    {r \in AllRows :
        ProcessedCount(processed_dataframe[r].tid) >= min_num_loc_per_trace}

\* C1: filter operations re-derive from the canonical processed table.
\* Right after apply_range_filter(p, lo, hi) the filtered table is the range
\* filter applied to the globally filtered processed table, whatever calls
\* came before; and right after _apply_global_filters every trace of the
\* processed table that satisfies the current minimum is present unless a
\* range filter removed rows.
C1_FiltersRederiveFromProcessed ==
    /\ last_call.op = "range" =>
          filtered_dataframe =
             Some({r \in LongTraceRows :
                     InRange(r, last_call.prop, Get(last_call.lo), Get(last_call.hi))})
    /\ (last_call.op = "global" /\ ~range_dropped) =>
          LongTraceRows \subseteq Get(filtered_dataframe)

\* C2: re-applying the same filter is a no-op.  A second
\* apply_range_filter(p, lo, hi) right after the first, with
\* min_num_loc_per_trace unchanged, leaves the filtered table unchanged, and
\* so does a second consecutive _apply_global_filters.
C2_ReapplyIsNoOp ==
    [][(/\ last_call.op \in {"range", "global"}
        /\ last_call' = last_call
        /\ min_num_loc_per_trace' = min_num_loc_per_trace)
       => filtered_dataframe' = filtered_dataframe]_vars

\* C3: after reset() the filtered table is the processed table with only
\* the global minimum-trace-length filter applied, whatever range filters
\* were applied before.
C3_ResetRestoresGlobalOnly ==
    last_call.op = "reset" =>
        /\ ~IsNone(filtered_dataframe)
        /\ Get(filtered_dataframe) = LongTraceRows

\* C3 witness: a reset that follows a range filter which removed rows, and
\* after which every row of a non-empty processed table is back.
C3_Witness ==
    /\ last_call.op = "reset"
    /\ range_dropped
    /\ AllRows # {}
    /\ filtered_dataframe = Some(AllRows)

\* C4: right after construction, and after reset, a row of the processed
\* table is in the filtered table exactly when its tid occurs at least
\* min_num_loc_per_trace times in the processed table.
C4_GlobalFilterKeepsLongTraces ==
    last_call.op \in {"init", "reset"} =>
        /\ Get(filtered_dataframe) \subseteq AllRows
        /\ \A r \in AllRows :
              r \in Get(filtered_dataframe) <=>
                 ProcessedCount(processed_dataframe[r].tid)
                    >= min_num_loc_per_trace

\* C4 witness: traces of lengths [1, 2] constructed with minimum 2 leave the
\* two rows of the longer trace.
C4_Witness ==
    /\ last_call.op = "init"
    /\ min_num_loc_per_trace = 2
    /\ Len(processed_dataframe) = 3
    /\ {ProcessedCount(t) : t \in TidValues} = {1, 2}
    /\ Cardinality(Get(filtered_dataframe)) = 2

\* C5: apply_range_filter is atomic.  A call that fails (prop is not a
\* column) leaves the filtered table and the statistics-stale flag exactly
\* as they were before the call.
C5_FailedRangeFilterChangesNothing ==
    [][last_call'.op = "raised" =>
          /\ filtered_dataframe' = filtered_dataframe
          /\ stats_to_be_recomputed' = stats_to_be_recomputed]_vars

\* -------------------------------------------------------- reader claims
\* The reader was constructed over a readable file: it holds an array.
Decoded == reader_status = "ok" /\ ~IsNone(data_array)

\* processed_dataframe has been read and returned a table (not None).
TableReturned == ~IsNone(df_returned) /\ ~IsNone(Get(df_returned))
ReturnedTable == Get(Get(df_returned))

\* The event of the raw array that row k of the returned table comes from.
EventOfRow(k) ==
    SelectedSeq(Get(data_array), Get(reader_args).valid, 1)[k]

\* C6: decoding never raises to the caller.  For a missing, unreadable,
\* corrupt or unsupported file the construction of MinFluxReader completes
\* without an exception, and reading processed_dataframe yields None.
C6_DecodingNeverRaises ==
    (reader_status # "none" /\ Get(reader_args).file.kind \in UnreadableKinds) =>
        /\ reader_status = "ok"
        /\ ~IsNone(df_returned) => IsNone(Get(df_returned))

\* C7: a readable file in which no entry has vld == keep_valid is reported
\* as a decode failure: processed_dataframe is None and not an empty table
\* (which is what a decoded file whose rows are all filtered away gives).
C7_NoValidEntryIsDecodeFailure ==
    (/\ Decoded
     /\ ~IsNone(df_returned)
     /\ SelectedEvents(Get(data_array), Get(reader_args).valid) = {})
    => IsNone(Get(df_returned))

\* C8: every fluorophore id of the processed table is 1 if and only if the
\* stored fluo values of the selected rows are all zero; with at least one
\* non-zero selected fluo the stored values are kept unchanged.
C8_FluoDefaultsOnlyWhenAllZero ==
    (Decoded /\ TableReturned) =>
        LET arr == Get(data_array)
            sel == SelectedEvents(arr, Get(reader_args).valid)
            allZero == \A e \in sel : arr.events[e].fluo = 0
        IN  \A k \in DOMAIN ReturnedTable :
                ReturnedTable[k].fluo =
                    IF allZero THEN 1 ELSE arr.events[EventOfRow(k)].fluo

\* The table's fields of row k are those of the cells the claim C9 names:
\* the only iteration when there is one, else each field's own index.
RowReadFromOwnCells(k) ==
    LET arr == Get(data_array)
        e == EventOfRow(k)
        cell(f) == IF arr.reps = 1 THEN ItrCell(arr, e, 0)
                   ELSE ItrCell(arr, e, last_valid[f])
        row == ReturnedTable[k]
    IN  /\ row.efo = cell("efo").efo
        /\ row.cfr = cell("cfr").cfr
        /\ row.eco = cell("eco").eco
        /\ row.dcr = cell("dcr").dcr
        /\ row.x = cell("loc").loc[1] * unit_scaling_factor
        /\ row.y = cell("loc").loc[2] * unit_scaling_factor
        /\ row.z = cell("loc").loc[3] * unit_scaling_factor
                      * Get(reader_args).z_scaling_factor

\* C9: with exactly one iteration per event is_aggregated is True and the
\* table is read from that iteration (no read of it fails), without the
\* per-field last-valid-iteration search being performed; for every other
\* iteration count is_aggregated is False and each field is read at its own
\* resolved index.
C9_AggregatedWithoutSearch ==
    Decoded =>
        /\ is_aggregated <=> Get(data_array).reps = 1
        /\ is_aggregated => ~searched
        /\ is_aggregated => ~process_raised
        /\ TableReturned => \A k \in DOMAIN ReturnedTable : RowReadFromOwnCells(k)

\* ----------------------------------------------------- histogram claims
HistReturned == ~IsNone(hist_result)
HistResult == Get(hist_result)

RECURSIVE NumeratorSum(_)
NumeratorSum(n) == IF n = <<>> THEN 0 ELSE n[1].num + NumeratorSum(Tail(n))

\* C10: for every input with at least one finite value (NaNs and negative
\* values included) prepare_histogram with normalize=True returns counts that
\* sum to 1.0, in automatic and in fixed-bin-size mode (bin_size > 0): at
\* least one bin is returned, at least one value falls into a bin, and the
\* normalization does not divide by zero.
C10_NormalizedCountsSumToOne ==
    (/\ HistReturned
     /\ hist_args.fn = "prepare_histogram"
     /\ hist_args.normalize
     /\ NumFinite(hist_args.values) >= 1
     /\ hist_args.auto_bins \/ hist_args.bin_size > 0)
    => /\ HistResult.status = "ok"
       /\ Len(HistResult.n) >= 1
       /\ \A j \in DOMAIN HistResult.n : HistResult.n[j].den # 0
       /\ NumeratorSum(HistResult.n) = HistResult.n[1].den

\* The exception class of a raised error: the name before the colon.
ErrorClass(error) ==
    IF error \in {"ValueError: No data.",
                  "ValueError: bin_size must be a positive number!",
                  "ValueError: cannot convert float NaN to integer"}
    THEN "ValueError"
    ELSE IF error = "OverflowError: cannot convert float infinity to integer"
    THEN "OverflowError"
    ELSE "Exception"

\* hist_bins was called with values and a positive bin size and returned bins.
HistBinsReturnedBins ==
    /\ HistReturned
    /\ hist_args.fn = "hist_bins"
    /\ hist_args.bin_size > 0
    /\ HistResult.status = "ok"

\* C11: hist_bins centers the first bin on a = bin_size * floor(min / bin_size)
\* with the mathematical floor (also for a negative minimum), so a <= min, and
\* returns floor((max - a) / bin_size) + 1 bins.
C11_FirstBinAnchoredAtFloor ==
    HistBinsReturnedBins =>
        LET bs == hist_args.bin_size
            lo == SetMin(FiniteSet(hist_args.values))
            hi == SetMax(FiniteSet(hist_args.values))
            a == bs * FloorDiv(lo, bs)
        IN  /\ HistResult.start = a
            /\ HistResult.start <= lo
            /\ HistResult.num_edges - 1 = FloorDiv(hi - a, bs) + 1

\* C12: an empty input raises the empty-input error, every fixed
\* bin_size <= 0 (0 and negative) on a non-empty input raises the
\* invalid-parameter error, and the two errors are of distinct kinds.
C12_EmptyAndBadBinSizeErrors ==
    (HistReturned /\ hist_args.fn = "hist_bins") =>
        /\ Len(hist_args.values) = 0 =>
              /\ HistResult.status = "raised"
              /\ HistResult.error = "ValueError: No data."
        /\ (Len(hist_args.values) > 0 /\ hist_args.bin_size <= 0) =>
              /\ HistResult.status = "raised"
              /\ HistResult.error = "ValueError: bin_size must be a positive number!"
              /\ ErrorClass(HistResult.error) # ErrorClass("ValueError: No data.")

\* ---------------------------------------------------- threshold claims
\* C13: get_robust_threshold returns all-None exactly when no value is
\* non-NaN; otherwise the median is a median of the non-NaN values,
\* upper - median = median - lower = factor * scaled_mad (so
\* lower <= median <= upper for factor >= 0), and the input is unmodified.
C13_RobustThresholdOverNonNaN ==
    (Called /\ call_args.fn = "get_robust_threshold") =>
        LET finite == {i \in DOMAIN call_args.values : ~IsNaN(call_args.values[i])}
            n == Cardinality(finite)
            res == CallResult
            \* x compared with the median, in the units of the result
            unit(i) == Val(call_args.values[i]) * 4 * MadScale
        IN  /\ res = AllNone <=> n = 0
            /\ n > 0 =>
                 /\ 2 * Cardinality({i \in finite : unit(i) <= res.med}) >= n
                 /\ 2 * Cardinality({i \in finite : unit(i) >= res.med}) >= n
                 /\ res.mad >= 0
                 /\ res.upper - res.med = call_args.factor * res.mad
                 /\ res.med - res.lower = call_args.factor * res.mad
                 /\ call_args.factor >= 0 =>
                       (res.lower <= res.med /\ res.med <= res.upper)
                 /\ res.values_after = call_args.values

\* C13 witness: values with a NaN among them and a spread, factor 2:
\* thresholds strictly around the median.
C13_Witness ==
    /\ Called
    /\ call_args.fn = "get_robust_threshold"
    /\ HasNaN(call_args.values)
    /\ call_args.factor = 2
    /\ CallResult # AllNone
    /\ CallResult.mad > 0
    /\ CallResult.lower < CallResult.med

\* -------------------------------------------------- peak-bounds claims
PeakCalled == Called /\ call_args.fn = "find_first_peak_bounds"

\* The counts never decrease from one bin to the next, and rise somewhere.
MonotonicallyIncreasing(counts) ==
    /\ \A i \in 1..(Len(counts) - 1) : counts[i] <= counts[i + 1]
    /\ counts[1] < counts[Len(counts)]

\* C14: find_first_peak_bounds returns (None, None) whenever no local
\* maximum of the filtered counts passes the prominence threshold (so for
\* every monotonically increasing histogram), also when minima qualify;
\* (bins[0], bins[-1]) when a maximum but no minimum qualifies; else the bins
\* of the nearest qualifying minimum on each side of the first maximum
\* (bins[0] / bins[-1] where there is none), so that
\* lower_bound <= bins[first_peak] <= upper_bound.
C14_FirstPeakBounds ==
    PeakCalled =>
        LET a == call_args
            res == CallResult
            last == Len(a.bins)
            maxima == Maxima(a)
            minima == Minima(a)
            first == SetMin(maxima)
            between(lo, hi) == {q \in minima : lo < q /\ q < hi}
        IN  /\ MonotonicallyIncreasing(a.counts) => maxima = {}
            /\ maxima = {} <=> res = NoBounds
            /\ (maxima # {} /\ minima = {}) => res = Bounds(a.bins[1], a.bins[last])
            /\ maxima # {} =>
                 /\ res.lower_bound <= a.bins[first]
                 /\ a.bins[first] <= res.upper_bound
                 /\ \/ /\ res.lower_bound = a.bins[1]
                       /\ between(1, first) = {}
                    \/ \E q \in minima :
                          /\ q < first
                          /\ res.lower_bound = a.bins[q]
                          /\ between(q, first) = {}
                 /\ \/ /\ res.upper_bound = a.bins[last]
                       /\ between(first, last) = {}
                    \/ \E q \in minima :
                          /\ q > first
                          /\ res.upper_bound = a.bins[q]
                          /\ between(first, q) = {}

\* C14 witness: a first maximum with a qualifying minimum on each side.
C14_Witness ==
    /\ PeakCalled
    /\ CallResult # NoBounds
    /\ CallResult.lower_bound > call_args.bins[1]
    /\ CallResult.upper_bound < call_args.bins[Len(call_args.bins)]

\* ------------------------------------------------------- render claims
Rendered == Called /\ call_args.fn = "render_xy" /\ CallResult.status = "ok"

\* The number of TRUE entries of a mask.
MaskSum(m) == Cardinality({i \in DOMAIN m : m[i]})

\* The sum of the rendered histogram.
RECURSIVE GridSum(_, _)
GridSum(h, cells) ==
    IF cells = {} THEN 0
    ELSE LET c == CHOOSE c \in cells : TRUE
         IN  h[c] + GridSum(h, cells \ {c})

\* The ranges render_xy works with: the given ones, else the data's min/max.
RenderRangeX == DefaultRange(call_args.points, call_args.rx, 1)
RenderRangeY == DefaultRange(call_args.points, call_args.ry, 2)

\* Point i lies within [rx0, rx1] x [ry0, ry1].
WithinRange(i) ==
    LET pt == call_args.points[i]
    IN  /\ RenderRangeX[1] <= pt[1] /\ pt[1] <= RenderRangeX[2]
        /\ RenderRangeY[1] <= pt[2] /\ pt[2] <= RenderRangeY[2]

\* C15: in histogram mode the sum of the grid is the number of TRUE mask
\* entries, mask.sum() <= N, and mask.sum() = N when every point lies within
\* [rx0, rx1] x [ry0, ry1] (so always when rx and ry default to the data's
\* min/max, the points at the maximum included).
C15_HistogramSumIsMaskSum ==
    (Rendered /\ call_args.render_type = "histogram") =>
        LET res == CallResult
            N == Len(call_args.points)
        IN  /\ GridSum(res.h, DOMAIN res.h) = MaskSum(res.m)
            /\ MaskSum(res.m) <= N
            /\ (\A i \in 1..N : WithinRange(i)) => MaskSum(res.m) = N

\* C16: in both render modes the mask has one entry per input point and
\* m[i] is TRUE iff point i contributed to the image.
C16_MaskIndexedLikeInput ==
    Rendered =>
        /\ Len(CallResult.m) = Len(call_args.points)
        /\ \A i \in DOMAIN call_args.points :
              CallResult.m[i] <=> i \in CallResult.contributed

\* C17: xi has Nx = ceil((rx1 - rx0) / sx) entries xi[k] = rx0 + k sx + sx/2,
\* and every included point lies within half a cell of the entry of its
\* column, |x[i] - xi[ix]| <= sx / 2; likewise for y.
C17_AxisHoldsCellCenters ==
    Rendered =>
        LET res == CallResult
            a == call_args
        IN  /\ Len(res.xi2) = CeilDiv(RenderRangeX[2] - RenderRangeX[1], a.sx)
            /\ \A k \in DOMAIN res.xi2 :
                  res.xi2[k] = 2 * RenderRangeX[1] + 2 * (k - 1) * a.sx + a.sx
            /\ \A i \in res.contributed :
                  /\ Abs(2 * a.points[i][1] - res.xi2[res.ix[i] + 1]) <= a.sx
                  /\ Abs(2 * a.points[i][2] - res.yi2[res.iy[i] + 1]) <= a.sy

\* ---------------------------------------------------------- FRC claims
\* Both runs of estimate_resolution_by_frc have finished.
BothRunsFinished ==
    /\ call_args.fn = "estimate_resolution_by_frc"
    /\ Len(FrcRuns) = NumRuns
    /\ \A k \in 1..NumRuns : RunFinished(FrcRuns[k])

CurveReturned ==
    /\ Called
    /\ call_args.fn = "img_fourier_ring_correlation"
    /\ CallResult.status = "ok"

\* C19: q_critical is the lowest retained frequency at which the smoothed
\* curve is strictly below 1/7, or the last retained frequency when it is
\* nowhere below; estimated_resolution = 1 / q_critical; the retained
\* frequencies are exactly those strictly below 0.8 times the highest one.
C19_FirstCrossingOfOneSeventh ==
    CurveReturned =>
        LET res == CallResult
            top == call_args.max_bin
            js == DOMAIN res.qi
            last == SetMax(js)
            smoothed == [j \in js |-> Smoothed28(call_args.ci, Cardinality(js), j)]
            certain(j) == smoothed[j] < 4
            excluded(j) == smoothed[j] > 4
        IN  /\ {res.qi[j] : j \in js} = {k \in 0..top : 10 * k < 8 * top}
            /\ \A j \in js : (certain(j) => res.below[j]) /\ (excluded(j) => ~res.below[j])
            /\ \/ /\ res.below[res.q_critical]
                  /\ \A j \in js : j < res.q_critical => ~res.below[j]
               \/ /\ \A j \in js : ~res.below[j]
                  /\ res.q_critical = res.qi[last]
            /\ res.estimated_resolution = [num |-> 1, den |-> res.q_critical]

\* C19 witness: the curve drops below 1/7 at a frequency above zero and is
\* not below it at a later retained frequency.
C19_Witness ==
    /\ CurveReturned
    /\ CallResult.q_critical > 0
    /\ CallResult.below[CallResult.q_critical]
    /\ \E j \in DOMAIN CallResult.qi : j > CallResult.q_critical /\ ~CallResult.below[j]

BoundariesReturned ==
    /\ Called
    /\ call_args.fn = "get_localization_boundaries"
    /\ CallResult.status = "ok"

\* r is q widened about its midpoint to exactly the width m
WidenedAboutMidpoint(r, q, m) ==
    /\ r[2] - r[1] = m
    /\ r[1] + r[2] = q[1] + q[2]

\* C20: the x and y ranges are at least min_range wide: a quantile range
\* narrower than min_range is widened symmetrically about its midpoint to
\* exactly min_range, a wider one is returned unchanged; the z range is
\* widened the same way only when its width exceeds 1e-6, so that a 2D
\* dataset (all z = 0) keeps rz = (0, 0).
C20_BoundariesAtLeastMinRange ==
    BoundariesReturned =>
        LET a == call_args
            res == CallResult
            m == BoundaryScale * a.min_range
            qx == <<Quantile8(a.x, a.alpha), Quantile8(a.x, 4 - a.alpha)>>
            qy == <<Quantile8(a.y, a.alpha), Quantile8(a.y, 4 - a.alpha)>>
            qz == <<Quantile8(a.z, a.alpha), Quantile8(a.z, 4 - a.alpha)>>
            lateral(r, q) ==
                /\ r[2] - r[1] >= m
                /\ IF q[2] - q[1] < m THEN WidenedAboutMidpoint(r, q, m) ELSE r = q
        IN  /\ lateral(res.rx, qx)
            /\ lateral(res.ry, qy)
            /\ \/ res.rz = qz
               \/ /\ qz[2] - qz[1] > BoundaryScale * Tiny
                  /\ WidenedAboutMidpoint(res.rz, qz, m)
            /\ (\A i \in DOMAIN a.z : a.z[i] = 0) => res.rz = <<0, 0>>

\* C20 witness: a 2D dataset whose x range is narrower than min_range and
\* not degenerate, and is widened on both sides.
C20_Witness ==
    /\ BoundariesReturned
    /\ \A i \in DOMAIN call_args.z : call_args.z[i] = 0
    /\ call_args.min_range > 0
    /\ Quantile8(call_args.x, call_args.alpha) < Quantile8(call_args.x, 4 - call_args.alpha)
    /\ CallResult.rx[1] < Quantile8(call_args.x, call_args.alpha)
    /\ CallResult.rx[2] > Quantile8(call_args.x, 4 - call_args.alpha)
    /\ CallResult.rz = <<0, 0>>

\* The value the last filtered_dataframe_stats read returned.
StatsRead == constructed /\ last_call.op = "stats"

\* C21: a read of filtered_dataframe_stats returns exactly one row per
\* distinct tid of the current filtered table, with n that tid's row count,
\* so that n sums to the number of filtered rows; and the statistics table
\* is replaced only by a read made while the stale flag is set, never by a
\* filter operation.
C21_StatsMatchFilteredTable ==
    /\ [](StatsRead =>
            LET rows == Get(filtered_dataframe)
                stats == Get(filtered_stats_dataframe)
                tids == {processed_dataframe[r].tid : r \in rows}
                of(t) == {r \in rows : processed_dataframe[r].tid = t}
            IN  /\ {st.tid : st \in stats} = tids
                /\ Cardinality(stats) = Cardinality(tids)
                /\ \A st \in stats : st.n = Cardinality(of(st.tid))
                /\ rows = UNION {of(st.tid) : st \in stats})
    /\ [][filtered_stats_dataframe' # filtered_stats_dataframe =>
            /\ last_call'.op = "stats"
            /\ stats_to_be_recomputed
            /\ ~stats_to_be_recomputed']_vars

\* C21 witness: statistics read after a range filter removed rows and left
\* some, a trace being counted with fewer rows than it has in the processed
\* table.
C21_Witness ==
    /\ StatsRead
    /\ range_dropped
    /\ Get(filtered_dataframe) # {}
    /\ Get(filtered_dataframe) # AllRows
    /\ \E st \in Get(filtered_stats_dataframe) : st.n < ProcessedCount(st.tid)

\* C22: after construction, reset and a completed apply_range_filter every
\* tid present in the filtered table occurs in it at least
\* min_num_loc_per_trace times.
C22_NoShortTraceLeftBehind ==
    (constructed /\ last_call.op \in {"init", "reset", "range"}) =>
        LET rows == Get(filtered_dataframe)
        IN  \A r \in rows :
               value_counts(rows, processed_dataframe[r].tid) >= min_num_loc_per_trace

\* C23: a completed apply_range_filter(prop, min_threshold, max_threshold)
\* retains exactly the rows passing the global filter whose value lies in
\* the closed interval: min_threshold <= prop <= max_threshold.
C23_RangeFilterIsInclusive ==
    [][last_call'.op = "range" =>
          filtered_dataframe' =
              Some({r \in GlobalFilterRows(filtered_dataframe) :
                      /\ Get(last_call'.lo) <= processed_dataframe[r][last_call'.prop]
                      /\ processed_dataframe[r][last_call'.prop] <= Get(last_call'.hi)})]_vars

\* C24: no operation changes the reader's processed table, and the subset
\* getters leave the filtered table and the statistics-stale flag as they
\* were.
C24_OperationsLeaveInputsAlone ==
    [][/\ processed_dataframe' = processed_dataframe
       /\ last_call'.op \in {"subset_indices", "subset_raised", "subset_xy"} =>
             /\ filtered_dataframe' = filtered_dataframe
             /\ stats_to_be_recomputed' = stats_to_be_recomputed]_vars

\* C24 witness: a subset was taken by x and y range from a table that a
\* range filter had shortened and whose statistics were up to date.
C24_Witness ==
    /\ constructed
    /\ last_call.op = "subset_xy"
    /\ range_dropped
    /\ Get(filtered_dataframe) # {}
    /\ ~stats_to_be_recomputed

\* The fields in which the objects of two states differ.
ChangedFields(before, after) ==
    {f \in StateFields : \E i \in DOMAIN before : before[i][f] # after[i][f]}

\* C25: State() always returns the same instance and its constructor body
\* runs only on the first call: every holder reads what any holder wrote, a
\* later State() call resets no field, reset() changes the two threshold
\* fields only, and only reset() and full_reset() change several fields at
\* once.
C25_StateIsSingleton ==
    /\ [](/\ Len(objects) <= 1
          /\ \A h \in Holders : ~IsNone(holders[h]) => holders[h] = instances
          /\ \A g, h \in Holders :
                (~IsNone(holders[g]) /\ ~IsNone(holders[h])) =>
                    objects[Get(holders[g])] = objects[Get(holders[h])])
    /\ [][/\ (state_call'.op = "State" /\ ~IsNone(instances)) =>
                (objects' = objects /\ instances' = instances)
          /\ state_call'.op = "reset" =>
                /\ ChangedFields(objects, objects') \subseteq {"efo_thresholds", "cfr_thresholds"}
                /\ \A i \in DOMAIN objects' :
                      i = Get(holders[state_call'.holder]) =>
                          /\ IsNone(objects'[i].efo_thresholds)
                          /\ IsNone(objects'[i].cfr_thresholds)
          /\ (Len(objects') = Len(objects)
                /\ Cardinality(ChangedFields(objects, objects')) > 1) =>
                state_call'.op \in {"reset", "full_reset"}]_vars

\* C25 witness: a second holder obtained the State after the first one had
\* changed min_num_loc_per_trace, and reads the changed value.
C25_Witness ==
    /\ state_call.op = "State"
    /\ ~IsNone(holders["options"])
    /\ ~IsNone(holders["processor"])
    /\ objects[Get(holders["processor"])].min_num_loc_per_trace # 1
    /\ objects[Get(holders["processor"])].min_num_loc_per_trace =
          objects[Get(holders["options"])].min_num_loc_per_trace

\* C26: every cell render_xy writes lies inside the grid: the row and the
\* column h is indexed with are within 0..Ny-1 and 0..Nx-1 for every point
\* the mask includes, and in fixed_gaussian mode for the whole patch around
\* the point, so that no index is out of range or negative.
C26_WritesStayInsideGrid ==
    Rendered =>
        \A cell \in CallResult.written :
            /\ 0 <= cell[1] /\ cell[1] < CallResult.Ny
            /\ 0 <= cell[2] /\ cell[2] < CallResult.Nx

\* C26 witness: a Gaussian patch of more than one cell was written.
C26_Witness ==
    /\ Rendered
    /\ call_args.render_type = "fixed_gaussian"
    /\ Cardinality(CallResult.written) > 1

IdealHistBinsReturned == ~IsNone(hist_result) /\ hist_args.fn = "ideal_hist_bins"

\* C27: for a non-empty input whose values are not all identical,
\* ideal_hist_bins returns a strictly positive bin width and at least two
\* strictly increasing bin edges, a zero IQR with min + max <= 0 included.
C27_IdealBinsArePositive ==
    (/\ IdealHistBinsReturned
     /\ Len(hist_args.values) > 0
     /\ ~HasNaN(hist_args.values)
     /\ ~AllDiffsZero(hist_args.values)) =>
        /\ Get(hist_result).status = "ok"
        /\ Get(hist_result).width.num > 0
        /\ Get(hist_result).num_edges >= 2

\* C28: the bins returned by hist_bins and by ideal_hist_bins cover every
\* finite input value, bin_edges[0] <= min(values) and
\* max(values) <= bin_edges[-1], and the counts of prepare_histogram
\* (the denominator of the normalized counts) sum to the number of finite
\* input values.
C28_BinsCoverAllValues ==
    (/\ HistReturned
     /\ HistResult.status = "ok"
     /\ ~HasNaN(hist_args.values)) =>
        LET lo == SetMin(FiniteSet(hist_args.values))
            hi == SetMax(FiniteSet(hist_args.values))
        IN  /\ (hist_args.fn \in {"hist_bins", "ideal_hist_bins"}
                  /\ HistResult.kind = "regular") =>
                  /\ HistResult.num_edges >= 1
                  /\ AtOrAboveEdge(lo, HistResult, 0)
                  /\ ~AboveEdge(hi, HistResult, HistResult.num_edges - 1)
            /\ hist_args.fn = "prepare_histogram" =>
                  /\ Len(HistResult.n) >= 1
                  /\ HistResult.n[1].den = NumFinite(hist_args.values)

\* C29: estimate_resolution_by_frc uses a supplied rx (or ry) unchanged
\* even when the other range is omitted, replaces only an omitted range by
\* that axis's data minimum and maximum, and renders every half-image of
\* every repetition with the same pair, so that all images have one shape.
C29_SuppliedRangeIsKept ==
    call_args.fn = "estimate_resolution_by_frc" =>
        \A k \in DOMAIN FrcRuns :
            ~FrcRuns[k].raised =>
                LET run == FrcRuns[k]
                    expected(r, c) ==
                        IF IsNone(r) THEN DefaultRange(call_args.points, None, c)
                        ELSE Get(r)
                IN  /\ run.ranges[1] = expected(call_args.rx, 1)
                    /\ run.ranges[2] = expected(call_args.ry, 2)
                    /\ \A i, j \in DOMAIN run.reps :
                          /\ DOMAIN run.reps[i].h1 = DOMAIN run.reps[j].h2
                          /\ DOMAIN run.reps[i].h1 = DOMAIN run.reps[j].h1

\* C30: every Analyzer.plot() call that emits plotting_started also emits
\* plotting_completed exactly once, on the no-data path as on the data
\* path, so that the buttons disabled when plotting starts are enabled
\* again when the handler that called plot() has ended, after any sequence
\* of filter, reset and plot actions.
C30_PlottingCompletesOnce ==
    analyzer_call.plotting_started = 1 =>
        /\ analyzer_call.plotting_completed = 1
        /\ buttons_enabled

=============================================================================
